---------------------------- MODULE Spec2Model ----------------------------
(***************************************************************************)
(* A model of the WriteBatch of dev/src/write-batch.ts: the list of        *)
(* logical write operations a batch accumulates (create, delete, set,      *)
(* update) and the                                                         *)
(* commit protocol (idle-time transaction upgrade, serialisation of the    *)
(* operations into wire entries, demultiplexing of the write results).     *)
(***************************************************************************)
EXTENDS Integers, Sequences, FiniteSets, TLC

VARIABLES
    _writes,                 \* WriteBatch._writes: the queued WriteOp objects
    _committed,              \* WriteBatch._committed
    _preferTransactions,     \* Firestore._preferTransactions
    _lastSuccessfulRequest,  \* Firestore._lastSuccessfulRequest (0: falsy, none recorded)
    now,                     \* the wall clock read by new Date().getTime()
    pc,                      \* where the current commit() call stands
    request,                 \* the ICommitRequest built by commit_
    rpcs,                    \* the RPCs the current commit() call has issued, in order
    beginResp,               \* the beginTransaction response the current call received
    resp,                    \* the commit response the current call received
    result,                  \* how the promise of the current commit() call settled
    lastCall,                \* the last create/delete/set/update call and how it ended
    input                    \* the call a caller has prepared for the batch, when one
                             \* call is examined over all its arguments

vars == << _writes, _committed, _preferTransactions, _lastSuccessfulRequest,
           now, pc, request, rpcs, beginResp, resp, result, lastCall, input >>

-----------------------------------------------------------------------------
(* Bounds of the model.                                                    *)

\* The largest number of operations appended to the batch.
MaxOps == 2

\* The largest number of field/value pairs of an update() call whose paths
\* run over all of Paths.
MaxFields == 3

\* How many write results more than the wire entries sent a response may hold.
MaxExtraResults == 1

\* The clock values of the model, in ms. With a last successful request at
\* 1000 they give the elapsed times 0, 10000, 110000, 110001 and 111000.
Times == {1000, 11000, 111000, 111001, 112000}

\* The first clock value.
StartTime == CHOOSE t \in Times : \A u \in Times : t <= u

\* The field names a document is built from.
Fields == {"a", "b"}

\* The transaction ids a beginTransaction response can carry.
TransactionIds == {"tx1", "tx2"}

\* The errors an RPC can fail with.
TransportErrors == {"UNAVAILABLE", "DEADLINE_EXCEEDED"}

-----------------------------------------------------------------------------
(* Values.                                                                 *)

\* const GCF_IDLE_TIMEOUT_MS = 110 * 1000;
GCF_IDLE_TIMEOUT_MS == 110 * 1000

\* An absent transaction id (commitOptions undefined).
NoTransaction == "none"

\* api.IPrecondition, and the null Precondition.toProto() gives when the
\* precondition holds no condition. exists is "true", "false" or "unset";
\* updateTime 0 is unset.
NoPrecondition == [exists |-> "unset", updateTime |-> 0]

\* api.IWrite. id is the identity of the JavaScript object (the position of
\* the operation it was built for), kind is "update" (a document body),
\* "delete" or "transform"; NoEntry is null / undefined.
NoEntry == [id |-> 0, kind |-> "null", updateMask |-> FALSE,
            currentDocument |-> NoPrecondition]

IsNull(e) == e.kind = "null"

\* No response / no result yet.
NoResponse == [commitTime |-> 0, writeResults |-> << >>]

NoResult == [status |-> "none", error |-> "none", writeResults |-> << >>]

NoRequest == [writes |-> << >>, transaction |-> NoTransaction]

\* message tells apart the errors of update() that differ only in their
\* text; "unspecified" is a text the model does not tell apart.
NoCall == [op |-> "none", error |-> "none", message |-> "none"]

-----------------------------------------------------------------------------
(* Input documents: a map from field names to the kind of leaf they hold.  *)

LeafKinds == {"plain", "transform", "delete"}

DocumentData == UNION {[S -> LeafKinds] : S \in SUBSET Fields}

HasLeaf(data, kind) == \E f \in DOMAIN data : data[f] = kind

\* DocumentSnapshot.fromObject(ref, data).isEmpty: no plain value survives.
SnapshotIsEmpty(data) == ~HasLeaf(data, "plain")

\* DocumentTransform.fromObject(ref, data).isEmpty: no transform sentinel.
TransformIsEmpty(data) == ~HasLeaf(data, "transform")

\* document.toProto(): {update: {name, fields}}.
DocumentToProto(id) ==
    [id |-> id, kind |-> "update", updateMask |-> FALSE,
     currentDocument |-> NoPrecondition]

\* transform.toProto(serializer): null when the transform list is empty.
TransformToProto(id, data) ==
    IF TransformIsEmpty(data) THEN NoEntry
    ELSE [id |-> id, kind |-> "transform", updateMask |-> FALSE,
          currentDocument |-> NoPrecondition]

\* new Precondition(options).toProto(): null when no condition is set.
PreconditionToProto(exists, updateTime) ==
    [exists |-> exists, updateTime |-> updateTime]

\* validateDocumentData(arg, obj, allowDeletes) for a plain object: every
\* property goes through validateUserInput, which rejects a delete sentinel
\* unless deletes are allowed.
validateDocumentData(data, allowDeletes) ==
    allowDeletes \/ ~HasLeaf(data, "delete")

-----------------------------------------------------------------------------
(* Preconditions as the caller passes them to delete().                    *)

\* type: "undefined", "object" or "other" (null or a primitive);
\* exists: "unset", "true", "false" or "notBoolean";
\* lastUpdateTime: 0 (unset), a Timestamp (> 0) or -1 (not a Timestamp).
UndefinedPrecondition == [type |-> "undefined", exists |-> "unset", lastUpdateTime |-> 0]

PublicPreconditions ==
    {UndefinedPrecondition}
    \cup {[type |-> "other", exists |-> "unset", lastUpdateTime |-> 0]}
    \cup [type : {"object"}, exists : {"unset", "true", "false", "notBoolean"},
          lastUpdateTime : {-1, 0, StartTime}]

\* The preconditions delete() is called with when the commit is explored: none,
\* one condition of either kind, and an invalid one holding both.
CommitPreconditions ==
    {UndefinedPrecondition}
    \cup {p \in PublicPreconditions :
            /\ p.type = "object"
            /\ p.exists \in {"unset", "true"}
            /\ p.lastUpdateTime \in {0, StartTime}
            /\ (p.exists # "unset" \/ p.lastUpdateTime # 0)}

\* validatePrecondition() without the count of the conditions.
validatePrecondition_anyCount(val, allowExist) ==
    /\ val.type = "object"
    /\ val.exists # "unset" => (allowExist /\ val.exists \in {"true", "false"})
    /\ val.lastUpdateTime # 0 => val.lastUpdateTime > 0

\* validatePrecondition(arg, val, allowExist): TRUE when it does not throw.
validatePrecondition(val, allowExist) ==
    /\ val.type = "object"
    /\ val.exists # "unset" => (allowExist /\ val.exists \in {"true", "false"})
    /\ val.lastUpdateTime # 0 => val.lastUpdateTime > 0
    /\ ~(val.exists # "unset" /\ val.lastUpdateTime # 0)

\* validateDeletePrecondition(arg, precondition)
validateDeletePrecondition(precondition) ==
    precondition.type # "undefined" => validatePrecondition(precondition, TRUE)

-----------------------------------------------------------------------------
(* The append operations.                                                  *)

\* verifyNotCommitted() that never throws.
verifyNotCommitted_never == TRUE

\* verifyNotCommitted(): TRUE when it does not throw.
verifyNotCommitted == ~_committed

\* create() sending a write only when there is a plain value and no transform.
createOp_and(id, data) ==
    [method |-> "create",
     write |-> IF ~SnapshotIsEmpty(data) /\ TransformIsEmpty(data)
               THEN DocumentToProto(id) ELSE NoEntry,
     transform |-> TransformToProto(id, data),
     precondition |-> PreconditionToProto("false", 0)]

\* The WriteOp create() pushes for `data`, as the operation number `id`.
\* method names the call that queued the operation.
createOp(id, data) ==
    [method |-> "create",
     write |-> IF ~SnapshotIsEmpty(data) \/ TransformIsEmpty(data)
               THEN DocumentToProto(id) ELSE NoEntry,
     transform |-> TransformToProto(id, data),
     precondition |-> PreconditionToProto("false", 0)]

\* The WriteOp delete() pushes.
deleteOp(id, precondition) ==
    [method |-> "delete",
     write |-> [id |-> id, kind |-> "delete", updateMask |-> FALSE,
                currentDocument |-> NoPrecondition],
     transform |-> NoEntry,
     precondition |-> PreconditionToProto(precondition.exists,
                                          precondition.lastUpdateTime)]

\* An append call that throws `error` with the text `message` out of a check
\* that precedes this._writes.push.
ThrowMessage(op, error, message) ==
    /\ lastCall' = [op |-> op, error |-> error, message |-> message]
    /\ UNCHANGED << _writes, _committed, _preferTransactions,
                    _lastSuccessfulRequest, now, pc, request, rpcs, beginResp, resp,
                    result, input >>

\* An append call that throws `error`.
Throw(op, error) == ThrowMessage(op, error, "unspecified")

\* An append call that pushes `writeOp`.
Push(op, writeOp) ==
    /\ _writes' = Append(_writes, writeOp)
    /\ lastCall' = [op |-> op, error |-> "none", message |-> "none"]
    /\ UNCHANGED << _committed, _preferTransactions, _lastSuccessfulRequest,
                    now, pc, request, rpcs, beginResp, resp, result, input >>

\* WriteBatch.create(documentRef, data)
create(data) ==
    IF ~validateDocumentData(data, FALSE) THEN Throw("create", "InvalidArgument")
    ELSE IF ~verifyNotCommitted THEN Throw("create", "StateError")
    ELSE /\ Len(_writes) < MaxOps
         /\ Push("create", createOp(Len(_writes) + 1, data))

\* WriteBatch.delete(documentRef, precondition)
delete(precondition) ==
    IF ~validateDeletePrecondition(precondition) THEN Throw("delete", "InvalidArgument")
    ELSE IF ~verifyNotCommitted THEN Throw("delete", "StateError")
    ELSE /\ Len(_writes) < MaxOps
         /\ Push("delete", deleteOp(Len(_writes) + 1, precondition))

-----------------------------------------------------------------------------
(* set(): its options and the write it queues.                             *)

\* The options argument of set(). type is "undefined", "object" or "other"
\* (null or a primitive); merge is "unset", "true", "false" or "notBoolean";
\* mergeFields is "unset", "notArray", "array" (of the valid field paths
\* `fields`) or "invalidArray" (an array holding an invalid field path).
UndefinedOptions ==
    [type |-> "undefined", merge |-> "unset", mergeFields |-> "unset", fields |-> {}]

SetOptions ==
    {UndefinedOptions}
    \cup {[type |-> "other", merge |-> "unset", mergeFields |-> "unset", fields |-> {}]}
    \cup [type : {"object"}, merge : {"unset", "true", "false", "notBoolean"},
          mergeFields : {"unset", "notArray", "invalidArray"}, fields : {{}}]
    \cup [type : {"object"}, merge : {"unset", "true", "false", "notBoolean"},
          mergeFields : {"array"}, fields : SUBSET Fields]

\* validateSetOptions() without its last check.
validateSetOptions_noExclusion(val) ==
    \/ val.type = "undefined"
    \/ /\ val.type = "object"
       /\ val.merge # "notBoolean"
       /\ val.mergeFields \in {"unset", "array"}

\* validateSetOptions(arg, val): TRUE when it does not throw.
validateSetOptions(val) ==
    \/ val.type = "undefined"
    \/ /\ val.type = "object"
       /\ val.merge # "notBoolean"
       /\ val.mergeFields \in {"unset", "array"}
       /\ ~(val.merge # "unset" /\ val.mergeFields # "unset")

\* DocumentMask.applyTo(data): the data projected onto the fields of the mask.
ApplyTo(mask, data) == [f \in (DOMAIN data) \cap mask |-> data[f]]

\* The fields of DocumentTransform.fromObject(ref, data).
TransformFields(data) == {f \in DOMAIN data : data[f] = "transform"}

\* DocumentMask.fromObject(data): the fields of data that hold no transform.
MaskFromObject(data) == {f \in DOMAIN data : data[f] # "transform"}

\* set() sending a write for every merge.
setOp_alwaysWrite(id, data, options) ==
    LET mergeLeaves == options.type = "object" /\ options.merge = "true"
        mergePaths == options.type = "object" /\ options.mergeFields = "array"
        data1 == IF mergePaths THEN ApplyTo(options.fields, data) ELSE data
    IN  [method |-> "set",
         write |-> IF ~mergePaths /\ ~mergeLeaves
                   THEN DocumentToProto(id)
                   ELSE [DocumentToProto(id) EXCEPT !.updateMask = TRUE],
         transform |-> TransformToProto(id, data1),
         precondition |-> NoPrecondition]

\* The WriteOp set() pushes for `data` under valid `options`.
setOp(id, data, options) ==
    LET mergeLeaves == options.type = "object" /\ options.merge = "true"
        mergePaths == options.type = "object" /\ options.mergeFields = "array"
        data1 == IF mergePaths THEN ApplyTo(options.fields, data) ELSE data
        documentMask == IF mergePaths
                        THEN options.fields \ TransformFields(data1)
                        ELSE MaskFromObject(data1)
        hasDocumentData == ~SnapshotIsEmpty(data1) \/ documentMask # {}
    IN  [method |-> "set",
         write |-> IF ~mergePaths /\ ~mergeLeaves
                   THEN DocumentToProto(id)
                   ELSE IF hasDocumentData \/ TransformIsEmpty(data1)
                        THEN [DocumentToProto(id) EXCEPT !.updateMask = TRUE]
                        ELSE NoEntry,
         transform |-> TransformToProto(id, data1),
         precondition |-> NoPrecondition]

\* WriteBatch.set(documentRef, data, options)
set(data, options) ==
    IF ~validateSetOptions(options) THEN Throw("set", "InvalidArgument")
    ELSE IF ~validateDocumentData(data,
                 options.type = "object"
                 /\ (options.mergeFields = "array" \/ options.merge = "true"))
         THEN Throw("set", "InvalidArgument")
    ELSE IF ~verifyNotCommitted THEN Throw("set", "StateError")
    ELSE /\ Len(_writes) < MaxOps
         /\ Push("set", setOp(Len(_writes) + 1, data, options))

-----------------------------------------------------------------------------
(* update(): its arguments, the update map and the write it queues.        *)

\* FieldPath: a sequence of segments; << >> stands for a string that is no
\* valid field path.
Paths == {<< "a" >>, << "b" >>, << "a", "a" >>, << "a", "b" >>}

\* The order of the segments as strings.
SegmentRank(segment) == IF segment = "a" THEN 1 ELSE 2

\* FieldPath.compareTo(other) < 0, = 0: segment by segment, then by length.
RECURSIVE ComparePaths(_, _, _)
ComparePaths(left, right, k) ==
    IF k > Len(left) \/ k > Len(right)
    THEN (IF Len(left) < Len(right) THEN -1
          ELSE IF Len(left) > Len(right) THEN 1 ELSE 0)
    ELSE IF SegmentRank(left[k]) < SegmentRank(right[k]) THEN -1
    ELSE IF SegmentRank(left[k]) > SegmentRank(right[k]) THEN 1
    ELSE ComparePaths(left, right, k + 1)

\* FieldPath.isPrefixOf(other)
IsPrefixOf(path, other) ==
    /\ Len(path) <= Len(other)
    /\ \A k \in 1..Len(path) : path[k] = other[k]

\* fields.sort((left, right) => left.compareTo(right))
RECURSIVE InsertPath(_, _)
InsertPath(path, sorted) ==
    IF sorted = << >> THEN << path >>
    ELSE IF ComparePaths(path, Head(sorted), 1) <= 0 THEN << path >> \o sorted
    ELSE << Head(sorted) >> \o InsertPath(path, Tail(sorted))

RECURSIVE SortPaths(_)
SortPaths(fields) ==
    IF fields = << >> THEN << >>
    ELSE InsertPath(Head(fields), SortPaths(Tail(fields)))

\* validateUpdate() scanning the adjacent pairs of the list as it was given.
validateUpdate_unsorted(data) ==
    \A i \in 2..Len(data) : ~IsPrefixOf(data[i - 1].path, data[i].path)

\* validateUpdate(arg, data): TRUE when it does not throw. data is the update
\* map, a sequence of [path, kind] entries in insertion order.
validateUpdate(data) ==
    LET fields == SortPaths([k \in 1..Len(data) |-> data[k].path])
    IN  \A i \in 2..Len(fields) : ~IsPrefixOf(fields[i - 1], fields[i])

\* The arguments of update() after documentRef. t is "string" (also a
\* FieldPath object), "object" (a plain object), "other" (any other value that
\* is no object) or "undefined"; path is the field path a string stands for;
\* kind is the kind of value the argument is where a value is expected; map is
\* the argument read as an update map, its keys as paths; pre is the argument
\* read as a precondition.
NoConditions == [type |-> "object", exists |-> "unset", lastUpdateTime |-> 0]

PathArg(path) ==
    [t |-> "string", path |-> path, kind |-> "plain", map |-> << >>,
     pre |-> [NoConditions EXCEPT !.type = "other"]]

ValueArg(kind) ==
    [t |-> "other", path |-> << >>, kind |-> kind, map |-> << >>,
     pre |-> [NoConditions EXCEPT !.type = "other"]]

MapArg(map) ==
    [t |-> "object", path |-> << >>, kind |-> "plain", map |-> map,
     pre |-> NoConditions]

PreconditionArg(pre) ==
    [t |-> "object", path |-> << >>, kind |-> "plain", map |-> << >>, pre |-> pre]

UndefinedArg ==
    [t |-> "undefined", path |-> << >>, kind |-> "plain", map |-> << >>,
     pre |-> UndefinedPrecondition]

\* No call prepared.
NoInput ==
    [op |-> "none", data |-> << >>, options |-> UndefinedOptions,
     precondition |-> UndefinedPrecondition, args |-> << >>]

\* validateUpdatePrecondition(arg, precondition)
validateUpdatePrecondition(precondition) ==
    precondition.type # "undefined" => validatePrecondition(precondition, FALSE)

\* validateMaxNumberOfArguments() letting one more argument through.
validateMaxNumberOfArguments_lenient(nargs, maxSize) == nargs <= maxSize + 1

\* validateMinNumberOfArguments / validateMaxNumberOfArguments
validateMinNumberOfArguments(nargs, minSize) == nargs >= minSize

validateMaxNumberOfArguments(nargs, maxSize) == nargs <= maxSize

\* validateFieldPath(arg, fieldPath) for a string or a FieldPath
validateFieldPath(arg) == arg.t = "string" /\ arg.path # << >>

\* A varargs loop that stops before an argument left without a partner.
RECURSIVE ParseVarargs_ignoresLast(_, _, _)
ParseVarargs_ignoresLast(args, i, acc) ==
    IF i >= Len(args) THEN acc
    ELSE IF ~validateFieldPath(args[i])
         THEN [acc EXCEPT !.ok = FALSE, !.message = "field path"]
         ELSE ParseVarargs_ignoresLast(args, i + 2,
                 [acc EXCEPT !.updateMap =
                     Append(@, [path |-> args[i].path,
                                kind |-> args[i + 1].kind])])

\* The varargs loop of update() from arguments[i] on (arguments[0] is the
\* document reference, arguments[i] is args[i]): the update map and the
\* precondition it leaves, ok FALSE when a validation throws.
RECURSIVE ParseVarargs(_, _, _)
ParseVarargs(args, i, acc) ==
    IF i >= Len(args) + 1 THEN acc
    ELSE IF i = Len(args)
         THEN IF validateUpdatePrecondition(args[i].pre)
              THEN [acc EXCEPT !.precondition =
                       PreconditionToProto(args[i].pre.exists,
                                           args[i].pre.lastUpdateTime)]
              ELSE [acc EXCEPT !.ok = FALSE, !.message = "precondition"]
         ELSE IF ~validateFieldPath(args[i])
              THEN [acc EXCEPT !.ok = FALSE, !.message = "field path"]
              ELSE IF ~validateMinNumberOfArguments(Len(args) + 1, i + 1)
              THEN [acc EXCEPT !.ok = FALSE, !.message = "requires at least"]
              ELSE ParseVarargs(args, i + 2,
                      [acc EXCEPT !.updateMap =
                          Append(@, [path |-> args[i].path,
                                     kind |-> args[i + 1].kind])])

\* The flat-mapping branch of update() accepting an empty mapping.
ParseUpdateMap_allowsEmpty(args, acc) ==
    IF args[1].t # "object"
    THEN [acc EXCEPT !.ok = FALSE, !.message = "not a plain object"]
    ELSE IF ~validateMaxNumberOfArguments(Len(args) + 1, 3)
    THEN [acc EXCEPT !.ok = FALSE, !.message = "accepts at most"]
    ELSE [acc EXCEPT !.updateMap = args[1].map]

\* The flat-mapping branch of update().
ParseUpdateMap(args, acc) ==
    IF args[1].t # "object"
    THEN [acc EXCEPT !.ok = FALSE, !.message = "not a plain object"]
    ELSE IF args[1].map = << >>
    THEN [acc EXCEPT !.ok = FALSE,
                     !.message = "At least one field must be updated."]
    ELSE IF ~validateMaxNumberOfArguments(Len(args) + 1, 3)
    THEN [acc EXCEPT !.ok = FALSE, !.message = "accepts at most"]
    ELSE IF \E k \in 1..Len(args[1].map) : args[1].map[k].path = << >>
    THEN [acc EXCEPT !.ok = FALSE, !.message = "field path"]
    ELSE IF Len(args) > 1
         THEN IF validateUpdatePrecondition(args[2].pre)
              THEN [acc EXCEPT !.updateMap = args[1].map,
                               !.precondition =
                                   PreconditionToProto(args[2].pre.exists,
                                                       args[2].pre.lastUpdateTime)]
              ELSE [acc EXCEPT !.ok = FALSE, !.message = "precondition"]
         ELSE [acc EXCEPT !.updateMap = args[1].map]

\* update() building a write only when the document has a plain value.
updateOp_plainOnly(id, updateMap, precondition) ==
    LET documentIsEmpty == \A k \in 1..Len(updateMap) : updateMap[k].kind # "plain"
        transformIsEmpty == \A k \in 1..Len(updateMap) : updateMap[k].kind # "transform"
    IN  [method |-> "update",
         write |-> IF ~documentIsEmpty
                   THEN [DocumentToProto(id) EXCEPT !.updateMask = TRUE]
                   ELSE NoEntry,
         transform |-> IF transformIsEmpty THEN NoEntry
                       ELSE [id |-> id, kind |-> "transform", updateMask |-> FALSE,
                             currentDocument |-> NoPrecondition],
         precondition |-> precondition]

\* The WriteOp update() pushes for an update map and a precondition.
updateOp(id, updateMap, precondition) ==
    LET documentIsEmpty == \A k \in 1..Len(updateMap) : updateMap[k].kind # "plain"
        documentMask == {updateMap[k].path : k \in
                            {n \in 1..Len(updateMap) : updateMap[n].kind # "transform"}}
        transformIsEmpty == \A k \in 1..Len(updateMap) : updateMap[k].kind # "transform"
    IN  [method |-> "update",
         write |-> IF ~documentIsEmpty \/ documentMask # {}
                   THEN [DocumentToProto(id) EXCEPT !.updateMask = TRUE]
                   ELSE NoEntry,
         transform |-> IF transformIsEmpty THEN NoEntry
                       ELSE [id |-> id, kind |-> "transform", updateMask |-> FALSE,
                             currentDocument |-> NoPrecondition],
         precondition |-> precondition]

\* update() pushing its operation before validateUpdate.
update_pushFirst(args) ==
    IF ~validateMinNumberOfArguments(Len(args) + 1, 2)
    THEN ThrowMessage("update", "InvalidArgument", "requires at least")
    ELSE IF ~verifyNotCommitted THEN Throw("update", "StateError")
    ELSE LET start == [ok |-> TRUE, message |-> "none", updateMap |-> << >>,
                       precondition |-> PreconditionToProto("true", 0)]
             parsed == IF args[1].t = "string"
                       THEN ParseVarargs(args, 1, start)
                       ELSE ParseUpdateMap(args, start)
         IN  IF ~parsed.ok
             THEN ThrowMessage("update", "InvalidArgument", parsed.message)
             ELSE /\ Len(_writes) < MaxOps
                  /\ _writes' = Append(_writes,
                                       updateOp(Len(_writes) + 1, parsed.updateMap,
                                                parsed.precondition))
                  /\ lastCall' = IF validateUpdate(parsed.updateMap)
                                 THEN [op |-> "update", error |-> "none",
                                       message |-> "none"]
                                 ELSE [op |-> "update", error |-> "InvalidArgument",
                                       message |-> "was specified multiple times"]
                  /\ UNCHANGED << _committed, _preferTransactions,
                                  _lastSuccessfulRequest, now, pc, request, rpcs,
                                  beginResp, resp, result, input >>

\* WriteBatch.update(documentRef, dataOrField, ...preconditionOrValues)
update(args) ==
    IF ~validateMinNumberOfArguments(Len(args) + 1, 2)
    THEN ThrowMessage("update", "InvalidArgument", "requires at least")
    ELSE IF ~verifyNotCommitted THEN Throw("update", "StateError")
    ELSE LET start == [ok |-> TRUE, message |-> "none", updateMap |-> << >>,
                       precondition |-> PreconditionToProto("true", 0)]
             parsed == IF args[1].t = "string"
                       THEN ParseVarargs(args, 1, start)
                       ELSE ParseUpdateMap(args, start)
         IN  IF ~parsed.ok
             THEN ThrowMessage("update", "InvalidArgument", parsed.message)
             ELSE IF ~validateUpdate(parsed.updateMap)
                  THEN ThrowMessage("update", "InvalidArgument",
                                    "was specified multiple times")
             ELSE /\ Len(_writes) < MaxOps
                  /\ Push("update", updateOp(Len(_writes) + 1, parsed.updateMap,
                                             parsed.precondition))

-----------------------------------------------------------------------------
(* The commit protocol.                                                    *)

\* _shouldCreateTransaction() comparing the idle time with >= in place of >.
_shouldCreateTransaction_inclusive ==
    IF ~_preferTransactions THEN FALSE
    ELSE IF _lastSuccessfulRequest # 0
         THEN now - _lastSuccessfulRequest >= GCF_IDLE_TIMEOUT_MS
         ELSE TRUE

\* WriteBatch._shouldCreateTransaction()
_shouldCreateTransaction ==
    IF ~_preferTransactions THEN FALSE
    ELSE IF _lastSuccessfulRequest # 0
         THEN now - _lastSuccessfulRequest > GCF_IDLE_TIMEOUT_MS
         ELSE TRUE

\* The precondition set on the write and on the transform alike.
AttachPrecondition_both(req) ==
    IF req.precondition = NoPrecondition THEN req
    ELSE [req EXCEPT
            !.write = IF IsNull(@) THEN @
                      ELSE [@ EXCEPT !.currentDocument = req.precondition],
            !.transform = IF IsNull(@) THEN @
                          ELSE [@ EXCEPT !.currentDocument = req.precondition]]

\* The precondition set on the transform when there is one, else on the write.
AttachPrecondition_transformFirst(req) ==
    IF req.precondition = NoPrecondition THEN req
    ELSE IF ~IsNull(req.transform)
         THEN [req EXCEPT !.transform.currentDocument = req.precondition]
         ELSE [req EXCEPT !.write.currentDocument = req.precondition]

\* (req.write || req.transform)!.currentDocument = req.precondition, done
\* when req.precondition is not null: the WriteOp with the precondition set
\* on its write, or on its transform when it has no write.
AttachPrecondition(req) ==
    IF req.precondition = NoPrecondition THEN req
    ELSE IF ~IsNull(req.write)
         THEN [req EXCEPT !.write.currentDocument = req.precondition]
         ELSE [req EXCEPT !.transform.currentDocument = req.precondition]

\* The entries of one WriteOp pushed transform first.
EmitEntries_transformFirst(req) ==
    (IF ~IsNull(req.transform) THEN << req.transform >> ELSE << >>)
    \o (IF ~IsNull(req.write) THEN << req.write >> ELSE << >>)

\* The entries one WriteOp adds to request.writes: its write if it has one,
\* then its transform if it has one.
EmitEntries(req) ==
    (IF ~IsNull(req.write) THEN << req.write >> ELSE << >>)
    \o (IF ~IsNull(req.transform) THEN << req.transform >> ELSE << >>)

\* The loop of commit_ over this._writes from operation i on. acc holds the
\* operations as the loop leaves them (currentDocument is set on the queued
\* objects themselves), the request.writes built so far, and whether the
\* assertion 'Either a write or transform must be set' failed.
RECURSIVE BuildWrites(_, _, _)
BuildWrites(ops, i, acc) ==
    IF i > Len(ops) THEN acc
    ELSE IF IsNull(ops[i].write) /\ IsNull(ops[i].transform)
         THEN [acc EXCEPT !.failed = TRUE]
         ELSE LET req == AttachPrecondition(ops[i])
              IN  BuildWrites(ops, i + 1,
                              [ops |-> [acc.ops EXCEPT ![i] = req],
                               writes |-> acc.writes \o EmitEntries(req),
                               failed |-> FALSE])

\* The RPCs of Firestore.request(methodName, request, tag, allowRetries), each
\* logged with the clock and the client's last successful request at the
\* time it is issued, and with the error it failed with ("none" while it is
\* in flight and when it succeeds).
BeginTransactionRpc ==
    [method |-> "beginTransaction", allowRetries |-> TRUE,
     transaction |-> NoTransaction,
     at |-> now, lastSuccessful |-> _lastSuccessfulRequest, error |-> "none"]

CommitRpc(transactionId) ==
    [method |-> "commit", allowRetries |-> FALSE, transaction |-> transactionId,
     at |-> now, lastSuccessful |-> _lastSuccessfulRequest, error |-> "none"]

\* A commit_ that marks the batch committed before it begins a transaction.
commit_eager(explicitTransaction, issued) ==
    IF explicitTransaction = NoTransaction /\ _shouldCreateTransaction
    THEN /\ rpcs' = Append(issued, BeginTransactionRpc)
         /\ pc' = "beginTransaction"
         /\ request' = NoRequest
         /\ result' = [NoResult EXCEPT !.status = "pending"]
         /\ _committed' = TRUE
         /\ UNCHANGED _writes
    ELSE LET built == BuildWrites(_writes, 1,
                        [ops |-> _writes, writes |-> << >>, failed |-> FALSE])
         IN  IF built.failed
             THEN /\ _writes' = built.ops
                  /\ result' = [NoResult EXCEPT !.status = "rejected",
                                                !.error = "AssertionError"]
                  /\ pc' = "done"
                  /\ request' = NoRequest
                  /\ rpcs' = issued
                  /\ UNCHANGED _committed
             ELSE /\ _writes' = built.ops
                  /\ request' = [writes |-> built.writes,
                                 transaction |-> explicitTransaction]
                  /\ _committed' = TRUE
                  /\ rpcs' = Append(issued, CommitRpc(explicitTransaction))
                  /\ result' = [NoResult EXCEPT !.status = "pending"]
                  /\ pc' = "commit"

\* WriteBatch.commit_({transactionId}) up to the RPC it issues.
commit_(explicitTransaction, issued) ==
    IF explicitTransaction = NoTransaction /\ _shouldCreateTransaction
    THEN /\ rpcs' = Append(issued, BeginTransactionRpc)
         /\ pc' = "beginTransaction"
         /\ request' = NoRequest
         /\ result' = [NoResult EXCEPT !.status = "pending"]
         /\ UNCHANGED << _writes, _committed >>
    ELSE LET built == BuildWrites(_writes, 1,
                        [ops |-> _writes, writes |-> << >>, failed |-> FALSE])
         IN  IF built.failed
             THEN /\ _writes' = built.ops
                  /\ result' = [NoResult EXCEPT !.status = "rejected",
                                                !.error = "AssertionError"]
                  /\ pc' = "done"
                  /\ request' = NoRequest
                  /\ rpcs' = issued
                  /\ UNCHANGED _committed
             ELSE /\ _writes' = built.ops
                  /\ request' = [writes |-> built.writes,
                                 transaction |-> explicitTransaction]
                  /\ _committed' = TRUE
                  /\ rpcs' = Append(issued, CommitRpc(explicitTransaction))
                  /\ result' = [NoResult EXCEPT !.status = "pending"]
                  /\ pc' = "commit"

\* A commit() that verifies the batch as the append operations do.
commit_verifies ==
    /\ pc \in {"idle", "done"}
    /\ beginResp' = NoTransaction
    /\ resp' = NoResponse
    /\ IF _committed
       THEN /\ result' = [NoResult EXCEPT !.status = "rejected",
                                          !.error = "StateError"]
            /\ pc' = "done"
            /\ request' = NoRequest
            /\ rpcs' = << >>
            /\ UNCHANGED << _writes, _committed >>
       ELSE commit_(NoTransaction, << >>)
    /\ UNCHANGED << _preferTransactions, _lastSuccessfulRequest, now, lastCall, input >>

\* WriteBatch.commit(): a call made when no other commit() call is running.
commit ==
    /\ pc \in {"idle", "done"}
    /\ beginResp' = NoTransaction
    /\ resp' = NoResponse
    /\ commit_(NoTransaction, << >>)
    /\ UNCHANGED << _preferTransactions, _lastSuccessfulRequest, now, lastCall, input >>

\* The beginTransaction RPC succeeds with transaction id tx.
BeginTransactionResponse(tx) ==
    /\ pc = "beginTransaction"
    /\ beginResp' = tx
    /\ _lastSuccessfulRequest' = now
    /\ pc' = "beginTransactionDone"
    /\ UNCHANGED << _writes, _committed, _preferTransactions, now, request,
                    rpcs, resp, result, lastCall, input >>

\* The then-handler calling commit_ without the transaction id.
BeginTransactionThen_dropsId ==
    /\ pc = "beginTransactionDone"
    /\ commit_(NoTransaction, rpcs)
    /\ UNCHANGED << _preferTransactions, _lastSuccessfulRequest, now,
                    beginResp, resp, lastCall, input >>

\* .then(resp => this.commit_({transactionId: resp.transaction!}))
BeginTransactionThen ==
    /\ pc = "beginTransactionDone"
    /\ commit_(beginResp, rpcs)
    /\ UNCHANGED << _preferTransactions, _lastSuccessfulRequest, now,
                    beginResp, resp, lastCall, input >>

\* A failed RPC reopening the batch.
RpcError_reopens(error) ==
    /\ pc \in {"beginTransaction", "commit"}
    /\ rpcs' = [rpcs EXCEPT ![Len(rpcs)].error = error]
    /\ result' = [NoResult EXCEPT !.status = "rejected", !.error = error]
    /\ pc' = "done"
    /\ _committed' = FALSE
    /\ UNCHANGED << _writes, _preferTransactions,
                    _lastSuccessfulRequest, now, request, beginResp,
                    resp, lastCall, input >>

\* A failed RPC whose error commit() replaces by one of its own.
RpcError_wraps(error) ==
    /\ pc \in {"beginTransaction", "commit"}
    /\ rpcs' = [rpcs EXCEPT ![Len(rpcs)].error = error]
    /\ result' = [NoResult EXCEPT !.status = "rejected", !.error = "CommitFailed"]
    /\ pc' = "done"
    /\ UNCHANGED << _writes, _committed, _preferTransactions,
                    _lastSuccessfulRequest, now, request, beginResp,
                    resp, lastCall, input >>

\* The RPC in flight fails with `error`: commit_ has no rejection handler,
\* so the promise of commit() rejects with the error of the RPC.
RpcError(error) ==
    /\ pc \in {"beginTransaction", "commit"}
    /\ rpcs' = [rpcs EXCEPT ![Len(rpcs)].error = error]
    /\ result' = [NoResult EXCEPT !.status = "rejected", !.error = error]
    /\ pc' = "done"
    /\ UNCHANGED << _writes, _committed, _preferTransactions,
                    _lastSuccessfulRequest, now, request, beginResp,
                    resp, lastCall, input >>

\* The loop of the response handler without the `++offset` of an operation
\* that sent two entries.
RECURSIVE DemuxResults_noOffset(_, _, _, _, _)
DemuxResults_noOffset(ops, response, i, offset, writeResults) ==
    IF i > Len(ops) THEN writeResults
    ELSE LET writeResult == response.writeResults[i + offset]
         IN  DemuxResults_noOffset(ops, response, i + 1, offset,
                                   Append(writeResults,
                                          IF writeResult # 0 THEN writeResult
                                          ELSE response.commitTime))

\* The loop of the response handler with the offset of a two-entry operation
\* incremented after its result is read instead of before.
RECURSIVE DemuxResults_lateOffset(_, _, _, _, _)
DemuxResults_lateOffset(ops, response, i, offset, writeResults) ==
    IF i > Len(ops) THEN writeResults
    ELSE LET offset1 == IF ~IsNull(ops[i].write) /\ ~IsNull(ops[i].transform)
                        THEN offset + 1 ELSE offset
             writeResult == response.writeResults[i + offset]
         IN  DemuxResults_lateOffset(ops, response, i + 1, offset1,
                                     Append(writeResults,
                                            IF writeResult # 0 THEN writeResult
                                            ELSE response.commitTime))

\* The loop of the response handler without the fall-back to the commit
\* time.
RECURSIVE DemuxResults_noFallback(_, _, _, _, _)
DemuxResults_noFallback(ops, response, i, offset, writeResults) ==
    IF i > Len(ops) THEN writeResults
    ELSE LET offset1 == IF ~IsNull(ops[i].write) /\ ~IsNull(ops[i].transform)
                        THEN offset + 1 ELSE offset
         IN  DemuxResults_noFallback(ops, response, i + 1, offset1,
                          Append(writeResults, response.writeResults[i + offset1]))

\* The loop of the commit response handler from operation i on:
\* resp.writeResults[i + offset] with offset counting the operations that
\* sent both a write and a transform, and the commit time as the fallback.
RECURSIVE DemuxResults(_, _, _, _, _)
DemuxResults(ops, response, i, offset, writeResults) ==
    IF i > Len(ops) THEN writeResults
    ELSE LET offset1 == IF ~IsNull(ops[i].write) /\ ~IsNull(ops[i].transform)
                        THEN offset + 1 ELSE offset
             writeResult == response.writeResults[i + offset1]
         IN  DemuxResults(ops, response, i + 1, offset1,
                          Append(writeResults,
                                 IF writeResult # 0 THEN writeResult
                                 ELSE response.commitTime))

\* The handler asserting only that no write result is missing.
CommitResult_atLeast(ops, req, response) ==
    IF Len(req.writes) > 0
    THEN IF Len(req.writes) > Len(response.writeResults)
         THEN [NoResult EXCEPT !.status = "rejected", !.error = "AssertionError"]
         ELSE [NoResult EXCEPT !.status = "resolved",
                  !.writeResults = DemuxResults(ops, response, 1, 0, << >>)]
    ELSE [NoResult EXCEPT !.status = "resolved"]

\* The handler asserting the number of write results of an empty request too.
CommitResult_noGuard(ops, req, response) ==
    IF Len(req.writes) # Len(response.writeResults)
    THEN [NoResult EXCEPT !.status = "rejected", !.error = "AssertionError"]
    ELSE [NoResult EXCEPT !.status = "resolved",
             !.writeResults = DemuxResults(ops, response, 1, 0, << >>)]

\* The .then handler of the commit RPC: how commit() settles on `response`.
CommitResult(ops, req, response) ==
    IF Len(req.writes) > 0
    THEN IF Len(req.writes) # Len(response.writeResults)
         THEN [NoResult EXCEPT !.status = "rejected", !.error = "AssertionError"]
         ELSE [NoResult EXCEPT !.status = "resolved",
                  !.writeResults = DemuxResults(ops, response, 1, 0, << >>)]
    ELSE [NoResult EXCEPT !.status = "resolved"]

\* The positions of a response of k write results that lack an updateTime:
\* none, any single one, or all of them.
AbsentSets(k) == {{}} \cup {{j} : j \in 1..k} \cup {1..k}

\* The commit responses of the server for n wire entries: a commit time and
\* k write results, each an update time (later than the commit time, and
\* later for a later entry) or 0 when the server reports none.
CommitResponses(n) ==
    UNION { { [commitTime |-> now,
               writeResults |-> [j \in 1..k |-> IF j \in absent THEN 0 ELSE now + j]] :
              absent \in AbsentSets(k) } :
            k \in 0..(n + MaxExtraResults) }

\* The commit RPC succeeds with `response`.
CommitResponse(response) ==
    /\ pc = "commit"
    /\ resp' = response
    /\ _lastSuccessfulRequest' = now
    /\ result' = CommitResult(_writes, request, response)
    /\ pc' = "done"
    /\ UNCHANGED << _writes, _committed, _preferTransactions, now, request,
                    rpcs, beginResp, lastCall, input >>

\* Time passes.
Tick(t) ==
    /\ t > now
    /\ now' = t
    /\ UNCHANGED << _writes, _committed, _preferTransactions,
                    _lastSuccessfulRequest, pc, request, rpcs, beginResp, resp,
                    result, lastCall, input >>

-----------------------------------------------------------------------------
(* Specifications.                                                         *)

\* A new batch of a client that has recorded a successful request or none.
NewBatch ==
    /\ _writes = << >>
    /\ _committed = FALSE
    /\ _preferTransactions \in BOOLEAN
    /\ _lastSuccessfulRequest \in {0, StartTime}
    /\ now = StartTime
    /\ pc = "idle"
    /\ request = NoRequest
    /\ rpcs = << >>
    /\ beginResp = NoTransaction
    /\ resp = NoResponse
    /\ result = NoResult
    /\ lastCall = NoCall

\* A new batch with no call prepared: the calls are chosen step by step.
Init == NewBatch /\ input = NoInput

\* The documents create() and set() are called with when a batch is explored:
\* the empty document, one field "a" of each kind, and a plain field "a"
\* beside a transform "b".
BatchData ==
    {data \in DocumentData :
        "b" \in DOMAIN data
        => ("a" \in DOMAIN data /\ data["a"] = "plain" /\ data["b"] = "transform")}

\* The batch and its commit, the clock standing still.
Next ==
    \/ \E data \in BatchData : create(data)
    \/ \E precondition \in CommitPreconditions : delete(precondition)
    \/ commit
    \/ \E tx \in TransactionIds : BeginTransactionResponse(tx)
    \/ BeginTransactionThen
    \/ RpcError("UNAVAILABLE")
    \/ \E response \in CommitResponses(Len(request.writes)) : CommitResponse(response)

Spec == Init /\ [][Next]_vars

\* The documents create() is called with when the idle heuristic is explored:
\* a plain field "a", alone or beside a plain or a transform field "b".
IdleData ==
    {data \in DocumentData : "a" \in DOMAIN data /\ data["a"] = "plain"
                              /\ ~HasLeaf(data, "delete")}

\* The commit response with one write result per wire entry, each with an
\* update time.
CompleteResponse(n) ==
    [commitTime |-> now, writeResults |-> [j \in 1..n |-> now + j]]

\* The batch and its commit while time passes.
NextIdle ==
    \/ \E data \in IdleData : create(data)
    \/ commit
    \/ \E tx \in TransactionIds : BeginTransactionResponse(tx)
    \/ BeginTransactionThen
    \/ \E error \in TransportErrors : RpcError(error)
    \/ CommitResponse(CompleteResponse(Len(request.writes)))
    \/ \E t \in Times : Tick(t)

SpecIdle == Init /\ [][NextIdle]_vars

\* The inputs of the four append operations when they are explored together:
\* the documents of BatchData;
\* no options, {merge: true}, {mergeFields: ['a']} and both at once;
AppendOptions ==
    {UndefinedOptions}
    \cup {o \in SetOptions :
            /\ o.type = "object"
            /\ o.merge \in {"unset", "true"}
            /\ o.mergeFields \in {"unset", "array"}
            /\ o.fields = (IF o.mergeFields = "array" THEN {"a"} ELSE {})
            /\ (o.merge # "unset" \/ o.mergeFields # "unset")}

\* argument lists of update() in both forms, valid and invalid.
LastUpdateTime == PreconditionArg([NoConditions EXCEPT !.lastUpdateTime = StartTime])

UpdateArguments ==
    { << >>,
      << MapArg(<< >>) >>,
      << MapArg(<< [path |-> << "a" >>, kind |-> "plain"] >>) >>,
      << MapArg(<< [path |-> << "a" >>, kind |-> "transform"] >>) >>,
      << MapArg(<< [path |-> << "a" >>, kind |-> "plain"],
                   [path |-> << "a", "b" >>, kind |-> "plain"] >>) >>,
      << MapArg(<< [path |-> << "a" >>, kind |-> "plain"] >>), LastUpdateTime >>,
      << MapArg(<< [path |-> << "a" >>, kind |-> "plain"] >>),
         PreconditionArg([NoConditions EXCEPT !.exists = "true"]) >>,
      << MapArg(<< [path |-> << "a" >>, kind |-> "plain"] >>), LastUpdateTime,
         ValueArg("plain") >>,
      << PathArg(<< "a" >>), ValueArg("plain") >>,
      << PathArg(<< "a" >>), ValueArg("delete"), LastUpdateTime >>,
      << PathArg(<< "a" >>), ValueArg("plain"), PathArg(<< "b" >>) >>,
      << PathArg(<< "a" >>), ValueArg("transform"), PathArg(<< "b" >>),
         ValueArg("plain") >>,
      << PathArg(<< "a", "b" >>), ValueArg("plain"), PathArg(<< "a" >>),
         ValueArg("plain") >> }

\* The calls of set() and update() made when the four append operations are
\* explored together: set() on one plain or one transform field, update() in
\* both forms with valid arguments and with arguments that fail each check.
AppendData ==
    {data \in BatchData : DOMAIN data = {"a"} /\ data["a"] # "delete"}

AppendArguments ==
    {args \in UpdateArguments :
        \/ Len(args) = 0
        \/ /\ args[1].t = "object"
           /\ Len(args[1].map) <= 1
           /\ Len(args) <= 2
        \/ /\ args[1].t = "string"
           /\ Len(args) = 4}

\* A new batch of a client that does not prefer transactions.
InitAppend == Init /\ ~_preferTransactions /\ _lastSuccessfulRequest = 0

\* The four append operations and a commit that is answered in full or fails.
NextAppend ==
    \/ \E data \in BatchData : create(data)
    \/ \E precondition \in CommitPreconditions : delete(precondition)
    \/ \E data \in AppendData, options \in AppendOptions : set(data, options)
    \/ \E args \in AppendArguments : update(args)
    \/ commit
    \/ RpcError("UNAVAILABLE")
    \/ CommitResponse(CompleteResponse(Len(request.writes)))

SpecAppend == InitAppend /\ [][NextAppend]_vars

\* One append call examined over all its arguments: the call is prepared
\* before the batch is used and repeated on that batch, open and committed.

\* The update map of a plain object with the fields of `data`.
MapOf(data) ==
    (IF "a" \in DOMAIN data THEN << [path |-> << "a" >>, kind |-> data["a"]] >>
     ELSE << >>)
    \o (IF "b" \in DOMAIN data THEN << [path |-> << "b" >>, kind |-> data["b"]] >>
        ELSE << >>)

\* Update maps of up to MaxFields plain values over all paths, in any order
\* and with repetitions.
PlainMaps ==
    UNION {[1..n -> {[path |-> p, kind |-> "plain"] : p \in Paths}] :
             n \in 1..MaxFields}

\* The keys of a JavaScript object are distinct.
DistinctPaths(map) ==
    \A i, j \in 1..Len(map) : map[i].path = map[j].path => i = j

\* update(ref, fieldPath, value, fieldPath, value, ...) for an update map.
RECURSIVE VarargsOf(_)
VarargsOf(map) ==
    IF map = << >> THEN << >>
    ELSE << PathArg(Head(map).path), ValueArg(Head(map).kind) >>
         \o VarargsOf(Tail(map))

\* What can follow the update map as a precondition: every object of
\* PublicPreconditions, undefined, and a value that is no object.
TrailingArgs ==
    {PreconditionArg(p) : p \in {q \in PublicPreconditions : q.type = "object"}}
    \cup {UndefinedArg, ValueArg("plain")}

PlainA == << [path |-> << "a" >>, kind |-> "plain"] >>

\* The argument lists of update() after documentRef.
UpdateCalls ==
    UpdateArguments
    \cup {<< MapArg(MapOf(data)) >> : data \in DocumentData}
    \cup {<< MapArg(map) >> : map \in {m \in PlainMaps : DistinctPaths(m)}}
    \cup {VarargsOf(MapOf(data)) : data \in DocumentData}
    \cup {VarargsOf(map) : map \in PlainMaps}
    \cup {<< MapArg(PlainA), q >> : q \in TrailingArgs}
    \cup {VarargsOf(PlainA) \o << q >> : q \in TrailingArgs}
    \cup {<< MapArg(<< >>), LastUpdateTime >>,
          << MapArg(<< >>), LastUpdateTime, ValueArg("plain") >>,
          << MapArg(PlainA), LastUpdateTime, LastUpdateTime >>,
          << MapArg(PlainA), ValueArg("plain"), LastUpdateTime >>,
          << UndefinedArg >>,
          << ValueArg("plain") >>,
          << ValueArg("plain"), LastUpdateTime, ValueArg("plain") >>,
          << PathArg(<< "a" >>) >>,
          << PathArg(<< >>), ValueArg("plain") >>}

\* The calls examined.
Calls ==
    {[NoInput EXCEPT !.op = "create", !.data = data] : data \in DocumentData}
    \cup {[NoInput EXCEPT !.op = "delete", !.precondition = precondition] :
             precondition \in PublicPreconditions}
    \cup {[NoInput EXCEPT !.op = "set", !.data = c[1], !.options = c[2]] :
             c \in DocumentData \X SetOptions}
    \cup {[NoInput EXCEPT !.op = "update", !.args = args] : args \in UpdateCalls}

InitCalls ==
    /\ NewBatch /\ ~_preferTransactions /\ _lastSuccessfulRequest = 0
    /\ input \in Calls

CallCreate == input.op = "create" /\ create(input.data)

CallDelete == input.op = "delete" /\ delete(input.precondition)

CallSet == input.op = "set" /\ set(input.data, input.options)

CallUpdate == input.op = "update" /\ update(input.args)

NextCalls ==
    \/ CallCreate
    \/ CallDelete
    \/ CallSet
    \/ CallUpdate
    \/ commit
    \/ RpcError("UNAVAILABLE")
    \/ CommitResponse(CompleteResponse(Len(request.writes)))

SpecCalls == InitCalls /\ [][NextCalls]_vars

-----------------------------------------------------------------------------
(* Properties of the commit protocol.                                      *)

\* The commit RPC of the current commit() call has returned a response.
CommitReturned == pc = "done" /\ resp # NoResponse

\* The positions in request.writes of the wire entries of operation i.
EntryPositions(i) == {j \in 1..Len(request.writes) : request.writes[j].id = i}

\* Operation i was sent as a write entry and a transform entry.
SentBoth(i) == ~IsNull(_writes[i].write) /\ ~IsNull(_writes[i].transform)

\* The position in request.writes of the transform / the write entry of i.
TransformPosition(i) ==
    CHOOSE j \in EntryPositions(i) : request.writes[j].kind = "transform"

WritePosition(i) ==
    CHOOSE j \in EntryPositions(i) : request.writes[j].kind # "transform"

\* The write time the server reported at position j of its write results:
\* the update time, or the commit time when there is none.
ReportedTime(j) ==
    IF resp.writeResults[j] # 0 THEN resp.writeResults[j] ELSE resp.commitTime

\* C1: when the commit RPC of a batch of at least one operation returns one
\* write result per wire entry, commit() resolves with exactly one result
\* per appended operation, and the i-th result is a time the server reported
\* for a wire entry of the i-th operation, whether that operation was sent
\* as one entry or as two.
ThmC1 ==
    (CommitReturned /\ Len(_writes) >= 1
        /\ Len(resp.writeResults) = Len(request.writes))
    => /\ result.status = "resolved"
       /\ Len(result.writeResults) = Len(_writes)
       /\ \A i \in 1..Len(_writes) :
              \E j \in EntryPositions(i) : result.writeResults[i] = ReportedTime(j)

\* A resolved commit of a two-entry operation followed by a one-entry one.
WitnessC1 ==
    /\ CommitReturned /\ result.status = "resolved"
    /\ Len(_writes) = 2 /\ Len(result.writeResults) = 2
    /\ SentBoth(1) /\ ~SentBoth(2)
    /\ \A j \in 1..Len(resp.writeResults) : resp.writeResults[j] # 0

\* C2: the result of an operation sent as a write entry and a transform entry
\* carries the update time the server reported for the transform entry, which
\* is the later of the two entries, and never the update time reported for
\* the write entry, whatever operations precede it.
ThmC2 ==
    (CommitReturned /\ result.status = "resolved")
    => \A i \in 1..Len(_writes) :
          SentBoth(i)
          => /\ TransformPosition(i) = WritePosition(i) + 1
             /\ resp.writeResults[TransformPosition(i)] # 0
                  => result.writeResults[i] = resp.writeResults[TransformPosition(i)]
             /\ resp.writeResults[WritePosition(i)] # 0
                  => result.writeResults[i] # resp.writeResults[WritePosition(i)]

\* A resolved commit whose second operation was sent as two entries, both
\* with an update time, after a two-entry operation.
WitnessC2 ==
    /\ CommitReturned /\ result.status = "resolved"
    /\ Len(_writes) = 2 /\ SentBoth(1) /\ SentBoth(2)
    /\ resp.writeResults[WritePosition(2)] # 0
    /\ result.writeResults[2] = resp.writeResults[TransformPosition(2)]
    /\ result.writeResults[2] # 0

\* C3: a commit() that resolves leaves the batch committed, a committed batch
\* stays committed, and every create, delete, set or update call on a
\* committed batch throws (the state error, unless an argument check that
\* comes before the state check fails) and leaves the list of operations
\* unchanged.
ThmC3 ==
    [][/\ result'.status = "resolved" => _committed'
       /\ _committed => _committed'
       /\ (_committed /\ lastCall' # lastCall)
            => /\ lastCall'.error \in {"StateError", "InvalidArgument"}
               /\ _writes' = _writes]_vars

\* An update call that failed with the state error after commit() resolved
\* with the results of two operations.
WitnessC3 ==
    /\ result.status = "resolved" /\ _committed
    /\ Len(result.writeResults) = 2
    /\ lastCall.op = "update" /\ lastCall.error = "StateError"

\* The RPCs of the given method the current commit() call has issued.
Issued(method) == {k \in 1..Len(rpcs) : rpcs[k].method = method}

\* C4: the first RPC of a commit() call, issued by the attempt that carries no
\* transaction id, is a beginTransaction exactly when the client prefers
\* transactions and, at that time, no successful request was recorded or more
\* than 110000 ms had passed since the last one.
ThmC4 ==
    Len(rpcs) >= 1
    => (rpcs[1].method = "beginTransaction"
        <=> /\ _preferTransactions
            /\ \/ rpcs[1].lastSuccessful = 0
               \/ rpcs[1].at - rpcs[1].lastSuccessful > 110000)

\* A commit() that began a transaction 111000 ms after the last success.
WitnessC4 ==
    /\ Len(rpcs) >= 1
    /\ rpcs[1].method = "beginTransaction"
    /\ rpcs[1].lastSuccessful # 0
    /\ rpcs[1].at - rpcs[1].lastSuccessful = 111000

\* C5: one commit() call issues at most one beginTransaction and at most one
\* commit RPC; while the beginTransaction response is outstanding no commit
\* RPC has been issued; and a commit RPC that follows a beginTransaction is
\* the second RPC of the call and carries the transaction id of the response.
ThmC5 ==
    /\ Cardinality(Issued("beginTransaction")) <= 1
    /\ Cardinality(Issued("commit")) <= 1
    /\ pc = "beginTransaction"
         => (Issued("commit") = {} /\ beginResp = NoTransaction)
    /\ (Issued("beginTransaction") # {} /\ Issued("commit") # {})
         => /\ Issued("beginTransaction") = {1} /\ Issued("commit") = {2}
            /\ beginResp \in TransactionIds
            /\ rpcs[2].transaction = beginResp
            /\ request.transaction = beginResp

\* A commit RPC issued by the recursive commit while the idle condition held.
WitnessC5 ==
    /\ Issued("beginTransaction") = {1} /\ Issued("commit") = {2}
    /\ _preferTransactions
    /\ rpcs[2].at - rpcs[2].lastSuccessful > GCF_IDLE_TIMEOUT_MS
    /\ request.transaction = beginResp

\* The number of wire entries of an operation, and of those before the i-th.
EntryCount(req) ==
    (IF IsNull(req.write) THEN 0 ELSE 1) + (IF IsNull(req.transform) THEN 0 ELSE 1)

RECURSIVE EntriesBefore(_)
EntriesBefore(i) ==
    IF i <= 1 THEN 0 ELSE EntriesBefore(i - 1) + EntryCount(_writes[i - 1])

\* C6: the writes of a commit request hold, operation after operation in
\* append order, the write entry of the operation (if any) and right after it
\* its transform entry (if any), and nothing else.
ThmC6 ==
    Issued("commit") # {}
    => /\ Len(request.writes) =
            Cardinality({i \in 1..Len(_writes) : ~IsNull(_writes[i].write)})
            + Cardinality({i \in 1..Len(_writes) : ~IsNull(_writes[i].transform)})
       /\ \A i \in 1..Len(_writes) :
            /\ ~IsNull(_writes[i].write)
                 => request.writes[EntriesBefore(i) + 1] = _writes[i].write
            /\ ~IsNull(_writes[i].transform)
                 => request.writes[EntriesBefore(i) + EntryCount(_writes[i])]
                      = _writes[i].transform

\* A commit request of a two-entry operation followed by another operation.
WitnessC6 ==
    /\ Issued("commit") # {}
    /\ Len(_writes) = 2 /\ SentBoth(1)
    /\ Len(request.writes) >= 3
    /\ request.writes[1].kind = "update" /\ request.writes[2].kind = "transform"

\* C7 as claimed: whenever the number of write results differs from the
\* number of wire entries sent, zero included, commit() fails with the
\* assertion error.
CexC7 ==
    (CommitReturned /\ Len(resp.writeResults) # Len(request.writes))
    => (result.status = "rejected" /\ result.error = "AssertionError")

\* C7: whenever at least one wire entry was sent and the number of write
\* results differs from the number of entries, commit() fails with the
\* assertion error and produces no result list; when no entry was sent the
\* write results are not looked at and commit() resolves with an empty list.
ThmC7 ==
    /\ (CommitReturned /\ Len(request.writes) > 0
          /\ Len(resp.writeResults) # Len(request.writes))
       => /\ result.status = "rejected" /\ result.error = "AssertionError"
          /\ result.writeResults = << >>
    /\ (CommitReturned /\ Len(request.writes) = 0)
       => (result.status = "resolved" /\ result.writeResults = << >>)

\* A commit of three wire entries answered with four write results.
WitnessC7 ==
    /\ CommitReturned
    /\ Len(request.writes) = 3 /\ Len(resp.writeResults) = 4
    /\ result.status = "rejected"

\* C8: the commit of a batch without operations issues a commit RPC with an
\* empty writes array, fails only if an RPC fails, and resolves with an empty
\* result list once the commit RPC returns.
ThmC8 ==
    Len(_writes) = 0
    => /\ pc = "commit" => (Issued("commit") # {} /\ request.writes = << >>)
       /\ result.status = "rejected" => result.error \in TransportErrors
       /\ CommitReturned => result.status = "resolved"
       /\ result.status = "resolved"
            => /\ result.writeResults = << >>
               /\ Issued("commit") # {} /\ request.writes = << >>
               /\ CommitReturned

\* The resolved commit of an empty batch.
WitnessC8 ==
    /\ Len(_writes) = 0 /\ _committed
    /\ CommitReturned /\ result.status = "resolved"
    /\ result.writeResults = << >>

\* The operation a successful create(data) step has queued.
Queued == _writes'[Len(_writes')]

\* A step that is a successful create call.
CreateStep ==
    /\ lastCall'.op = "create" /\ lastCall'.error = "none"
    /\ Len(_writes') = Len(_writes) + 1

\* C9 as claimed: every operation queued by create has a write entry, and a
\* transform entry exactly when the data holds a transform.
CexC9 ==
    [][\A data \in DocumentData :
         (CreateStep /\ create(data))
         => /\ ~IsNull(Queued.write)
            /\ ~IsNull(Queued.transform) <=> HasLeaf(data, "transform")]_vars

\* C9: an operation queued by create has a write entry exactly when its data
\* holds a plain value or no transform (data whose leaves are all transforms
\* queue a transform entry alone), and a transform entry exactly when the
\* data holds a transform.
ThmC9 ==
    [][\A data \in DocumentData :
         (CreateStep /\ create(data))
         => /\ ~IsNull(Queued.write)
                 <=> (HasLeaf(data, "plain") \/ ~HasLeaf(data, "transform"))
            /\ ~IsNull(Queued.transform) <=> HasLeaf(data, "transform")
            /\ ~IsNull(Queued.write) \/ ~IsNull(Queued.transform)]_vars

\* A create of data holding only transforms: it queued no write entry.
WitnessC9 ==
    /\ lastCall.op = "create" /\ lastCall.error = "none"
    /\ Len(_writes) >= 1
    /\ _writes[Len(_writes)].method = "create"
    /\ IsNull(_writes[Len(_writes)].write)
    /\ ~IsNull(_writes[Len(_writes)].transform)

\* C10: every operation queued by create carries the precondition
\* exists = false, and in the commit request the first wire entry of the
\* operation has currentDocument set to it and its other entry has none.
ThmC10 ==
    \A i \in 1..Len(_writes) :
        _writes[i].method = "create"
        => /\ _writes[i].precondition = [exists |-> "false", updateTime |-> 0]
           /\ Len(request.writes) > 0
                => /\ EntryPositions(i) # {}
                   /\ \A j \in EntryPositions(i) :
                        request.writes[j].currentDocument =
                            IF \A k \in EntryPositions(i) : j <= k
                            THEN _writes[i].precondition
                            ELSE NoPrecondition

\* A commit request holding the two entries of a created document.
WitnessC10 ==
    /\ Issued("commit") # {}
    /\ \E i \in 1..Len(_writes) :
          /\ _writes[i].method = "create" /\ SentBoth(i)
          /\ request.writes[WritePosition(i)].currentDocument.exists = "false"
          /\ request.writes[TransformPosition(i)].currentDocument = NoPrecondition

-----------------------------------------------------------------------------
(* Properties of one append call, over all its arguments.                  *)

\* The prepared call has been made, and the batch was open when it was last
\* made.
CalledOpen(op) ==
    input.op = op /\ lastCall.op = op /\ lastCall.error # "StateError"

\* What update() reads out of its arguments before validateUpdate.
Parsed(args) ==
    LET start == [ok |-> TRUE, message |-> "none", updateMap |-> << >>,
                  precondition |-> PreconditionToProto("true", 0)]
    IN  IF args = << >> THEN [start EXCEPT !.ok = FALSE]
        ELSE IF args[1].t = "string" THEN ParseVarargs(args, 1, start)
        ELSE ParseUpdateMap(args, start)

\* Two distinct entries of the update map have paths in a prefix
\* relationship: equal, or one a leading subsequence of the other.
HasPrefixPair(map) ==
    \E i, j \in 1..Len(map) : i # j /\ IsPrefixOf(map[i].path, map[j].path)

\* C11: an update() call on an open batch whose arguments give an update map
\* fails with the "was specified multiple times" error if and only if two
\* distinct entries of the map have paths in a prefix relationship, in
\* whatever order the entries were given; otherwise validateUpdate passes
\* and the call succeeds.
ThmC11 ==
    (CalledOpen("update") /\ Parsed(input.args).ok)
    => /\ lastCall.message = "was specified multiple times"
            <=> HasPrefixPair(Parsed(input.args).updateMap)
       /\ validateUpdate(Parsed(input.args).updateMap)
            <=> ~HasPrefixPair(Parsed(input.args).updateMap)
       /\ lastCall.error = "none"
            <=> ~HasPrefixPair(Parsed(input.args).updateMap)

\* update(ref, 'a.b', 1, 'a', 2) has failed.
WitnessC11 ==
    /\ CalledOpen("update")
    /\ input.args = << PathArg(<< "a", "b" >>), ValueArg("plain"),
                       PathArg(<< "a" >>), ValueArg("plain") >>
    /\ lastCall.message = "was specified multiple times"
    /\ _writes = << >>

\* The options supply merge / mergeFields (a property that is not undefined).
SuppliesMerge(options) == options.type = "object" /\ options.merge # "unset"

SuppliesMergeFields(options) ==
    options.type = "object" /\ options.mergeFields # "unset"

\* C12: a set() call whose options supply both merge and mergeFields throws
\* a validation error and queues nothing, on an open and on a committed
\* batch; with well-formed options that supply one of the two or neither,
\* and data valid for them, set() on an open batch succeeds.
ThmC12 ==
    (input.op = "set" /\ lastCall.op = "set")
    => /\ (SuppliesMerge(input.options) /\ SuppliesMergeFields(input.options))
            => (lastCall.error = "InvalidArgument" /\ _writes = << >>)
       /\ (/\ lastCall.error # "StateError"
           /\ input.options.type \in {"undefined", "object"}
           /\ input.options.merge \in {"unset", "true", "false"}
           /\ input.options.mergeFields \in {"unset", "array"}
           /\ ~(SuppliesMerge(input.options) /\ SuppliesMergeFields(input.options))
           /\ (HasLeaf(input.data, "delete")
                 => (input.options.merge = "true" \/ SuppliesMergeFields(input.options))))
            => (lastCall.error = "none" /\ _writes # << >>)

\* set(ref, {a: ...}, {merge: true, mergeFields: ['a']}) has thrown.
WitnessC12 ==
    /\ input.op = "set" /\ lastCall.op = "set"
    /\ input.options.merge = "true" /\ input.options.mergeFields = "array"
    /\ input.options.fields = {"a"}
    /\ lastCall.error = "InvalidArgument"
    /\ _writes = << >>

\* What set() builds from the prepared call: whether it merges, the data it
\* keeps (projected onto mergeFields when they are given) and its mask.
SetMerges == input.options.merge = "true" \/ SuppliesMergeFields(input.options)

SetData ==
    IF SuppliesMergeFields(input.options)
    THEN [f \in (DOMAIN input.data) \cap input.options.fields |-> input.data[f]]
    ELSE input.data

SetMaskIsEmpty ==
    IF SuppliesMergeFields(input.options)
    THEN \A f \in input.options.fields : f \in DOMAIN SetData /\ SetData[f] = "transform"
    ELSE \A f \in DOMAIN SetData : SetData[f] = "transform"

SetHasTransform == \E f \in DOMAIN SetData : SetData[f] = "transform"

SetHasPlain == \E f \in DOMAIN SetData : SetData[f] = "plain"

\* C13: an operation queued by set() has a write entry exactly when it is
\* not a merge, or the snapshot or the mask is non-empty, or the transform
\* list is empty; it has a transform entry exactly when the transform list
\* is non-empty; it carries no precondition; and its write entry has an
\* update mask exactly in the merge / mergeFields case.
ThmC13 ==
    input.op = "set"
    => \A i \in 1..Len(_writes) :
          /\ _writes[i].method = "set"
          /\ ~IsNull(_writes[i].write)
               <=> (~SetMerges \/ SetHasPlain \/ ~SetMaskIsEmpty \/ ~SetHasTransform)
          /\ ~IsNull(_writes[i].transform) <=> SetHasTransform
          /\ _writes[i].precondition = NoPrecondition
          /\ ~IsNull(_writes[i].write) => (_writes[i].write.updateMask <=> SetMerges)
          /\ _writes[i].write.currentDocument = NoPrecondition
          /\ _writes[i].transform.currentDocument = NoPrecondition

\* set(ref, {a: <transform>}, {merge: true}) has queued a transform alone,
\* and the batch was sent.
WitnessC13 ==
    /\ input.op = "set" /\ Len(_writes) = 1 /\ pc = "done"
    /\ input.options.merge = "true"
    /\ DOMAIN input.data = {"a"} /\ input.data["a"] = "transform"
    /\ IsNull(_writes[1].write) /\ ~IsNull(_writes[1].transform)

\* C14: update() called with an empty mapping, alone or followed by other
\* arguments, never queues an operation; on an open batch it throws the
\* error "At least one field must be updated.", and on a committed batch
\* the state error that verifyNotCommitted throws first.
ThmC14 ==
    (input.op = "update" /\ Len(input.args) >= 1 /\ input.args[1] = MapArg(<< >>))
    => /\ _writes = << >>
       /\ lastCall.op = "update"
            => \/ lastCall.error = "StateError" /\ _committed
               \/ /\ lastCall.error = "InvalidArgument"
                  /\ lastCall.message = "At least one field must be updated."
       /\ CalledOpen("update")
            => lastCall.message = "At least one field must be updated."

\* update(ref, {}) has thrown on an open batch.
WitnessC14 ==
    /\ input.op = "update" /\ input.args = << MapArg(<< >>) >>
    /\ CalledOpen("update") /\ ~_committed
    /\ lastCall.message = "At least one field must be updated."
    /\ _writes = << >>

\* The precondition argument of the prepared update() call: the argument
\* after the mapping in the flat form, the last argument of an even-length
\* list after documentRef in the varargs form; none when there is no such
\* argument.
HasPreconditionArg ==
    /\ Len(input.args) >= 1
    /\ IF input.args[1].t = "string" THEN Len(input.args) % 2 = 1
       ELSE Len(input.args) >= 2

PreconditionArgument ==
    IF input.args[1].t = "string" THEN input.args[Len(input.args)].pre
    ELSE input.args[2].pre

\* C15: every operation queued by update() carries a precondition:
\* exists = true when the call has no precondition argument, and otherwise
\* the lastUpdateTime of the caller's precondition; a call whose precondition
\* holds an `exists` condition queues nothing.
CexC15 ==
    input.op = "update"
    => /\ \A i \in 1..Len(_writes) :
              /\ _writes[i].precondition # NoPrecondition
              /\ ~HasPreconditionArg
                   => _writes[i].precondition = [exists |-> "true", updateTime |-> 0]
              /\ HasPreconditionArg
                   => /\ _writes[i].precondition.exists = "unset"
                      /\ _writes[i].precondition.updateTime
                           = PreconditionArgument.lastUpdateTime
                      /\ _writes[i].precondition.updateTime > 0
       /\ (HasPreconditionArg /\ PreconditionArgument.exists # "unset")
            => _writes = << >>

\* update(ref, {a: 1}, {}) has queued an operation without a precondition,
\* and commit() has sent its write without a currentDocument.
WitnessC15 ==
    /\ input.op = "update"
    /\ input.args = << MapArg(PlainA), PreconditionArg(NoConditions) >>
    /\ Len(_writes) = 1 /\ _writes[1].precondition = NoPrecondition
    /\ pc = "commit" /\ Len(request.writes) = 1
    /\ request.writes[1].currentDocument = NoPrecondition

\* The number of arguments of the prepared update() call, documentRef
\* counted.
ArgumentCount == Len(input.args) + 1

\* The prepared update() call is in the flat-mapping form.
FlatForm == Len(input.args) >= 1 /\ input.args[1].t # "string"

\* C16: update() called with fewer than 2 arguments throws (the arity error,
\* on an open and on a committed batch), and update() in the flat-mapping
\* form with more than 3 arguments throws (the arity error when the batch is
\* open and its first argument is a non-empty mapping); neither queues an
\* operation, while the flat-mapping form with 2 or 3 arguments succeeds.
ThmC16 ==
    (input.op = "update" /\ lastCall.op = "update")
    => /\ ArgumentCount < 2
            => /\ lastCall.error = "InvalidArgument"
               /\ lastCall.message = "requires at least"
               /\ _writes = << >>
       /\ (FlatForm /\ ArgumentCount > 3)
            => /\ lastCall.error # "none"
               /\ _writes = << >>
               /\ (lastCall.error # "StateError" /\ input.args[1] = MapArg(PlainA))
                    => (lastCall.error = "InvalidArgument"
                        /\ lastCall.message = "accepts at most")
       /\ (lastCall.error # "StateError"
           /\ input.args \in {<< MapArg(PlainA) >>, << MapArg(PlainA), LastUpdateTime >>})
            => lastCall.error = "none"

\* update(ref, {a: 1}, {lastUpdateTime}, {lastUpdateTime}) has thrown.
WitnessC16 ==
    /\ CalledOpen("update")
    /\ input.args = << MapArg(PlainA), LastUpdateTime, LastUpdateTime >>
    /\ lastCall.message = "accepts at most"
    /\ _writes = << >>

\* C17: every operation queued by delete() is one wire entry, a write of the
\* form {delete: ref} without a transform; it has no precondition when none
\* is supplied and the supplied one otherwise; on an open batch delete()
\* succeeds exactly when no precondition is supplied or the supplied one is
\* an object that sets at most one of exists (a boolean) and lastUpdateTime
\* (a Timestamp); a precondition that sets both queues nothing.
ThmC17 ==
    input.op = "delete"
    => /\ \A i \in 1..Len(_writes) :
              /\ _writes[i].write.kind = "delete"
              /\ IsNull(_writes[i].transform)
              /\ Len(EmitEntries(_writes[i])) = 1
              /\ _writes[i].precondition =
                    [exists |-> input.precondition.exists,
                     updateTime |-> input.precondition.lastUpdateTime]
              /\ input.precondition.type = "undefined"
                    => _writes[i].precondition = NoPrecondition
       /\ CalledOpen("delete")
            => (lastCall.error = "none"
                <=> \/ input.precondition.type = "undefined"
                    \/ /\ input.precondition.type = "object"
                       /\ input.precondition.exists \in {"unset", "true", "false"}
                       /\ input.precondition.lastUpdateTime >= 0
                       /\ \/ input.precondition.exists = "unset"
                          \/ input.precondition.lastUpdateTime = 0)
       /\ (input.precondition.exists # "unset"
           /\ input.precondition.lastUpdateTime # 0) => _writes = << >>
       /\ pc = "commit"
            => /\ Len(request.writes) = Len(_writes)
               /\ \A j \in 1..Len(request.writes) :
                     request.writes[j].kind = "delete"

\* delete(ref, {exists: true}) was queued and sent as one delete entry that
\* carries the precondition.
WitnessC17 ==
    /\ input.op = "delete" /\ input.precondition.exists = "true"
    /\ Len(_writes) = 1 /\ pc = "commit" /\ Len(request.writes) = 1
    /\ request.writes[1].kind = "delete"
    /\ request.writes[1].currentDocument = [exists |-> "true", updateTime |-> 0]

-----------------------------------------------------------------------------
(* Properties of the batch under all four append operations.               *)

\* C18: a create, delete, set or update call that throws, whatever the
\* check that throws (argument validation, ambiguous update paths, an
\* invalid precondition or invalid options, the committed batch), leaves the
\* list of operations and the committed flag exactly as they were.
ThmC18 ==
    [][(lastCall' # lastCall /\ lastCall'.error # "none")
         => (_writes' = _writes /\ _committed' = _committed)]_vars

\* update(ref, 'a.b', 1, 'a', 2) has thrown on an open batch that holds one
\* operation.
WitnessC18 ==
    /\ Len(_writes) = 1 /\ ~_committed
    /\ lastCall.op = "update" /\ lastCall.error = "InvalidArgument"
    /\ lastCall.message = "was specified multiple times"

\* C19: every operation queued by create, delete, set or update, whatever
\* its arguments, has a write entry or a transform entry, and commit() never
\* fails its assertion 'Either a write or transform must be set'.
ThmC19 ==
    /\ \A i \in 1..Len(_writes) :
          ~IsNull(_writes[i].write) \/ ~IsNull(_writes[i].transform)
    /\ result.error # "AssertionError"
    /\ pc \in {"commit", "done"} => Len(request.writes) >= Len(_writes)

\* update(ref, {a: <delete sentinel>}) has queued a write without a plain
\* value and without a transform, and the batch was sent.
WitnessC19 ==
    /\ input.op = "update"
    /\ input.args = << MapArg(<< [path |-> << "a" >>, kind |-> "delete"] >>) >>
    /\ Len(_writes) = 1 /\ pc = "commit"
    /\ ~IsNull(_writes[1].write) /\ IsNull(_writes[1].transform)
    /\ Len(request.writes) = 1

-----------------------------------------------------------------------------
(* The committed flag.                                                     *)

\* C20: the committed flag is false in a new batch, never goes from true to
\* false, and goes from false to true only in the step that sends the commit
\* RPC; it is true whenever a commit RPC is in flight and after that RPC has
\* failed, and an append call made then throws and queues nothing.
ThmC20 ==
    /\ ~_committed
    /\ [][/\ _committed => _committed'
          /\ (~_committed /\ _committed')
               => /\ pc' = "commit"
                  /\ Len(rpcs') = Len(rpcs) + 1 \/ pc = "done"
                  /\ rpcs'[Len(rpcs')].method = "commit"
          /\ pc' = "commit" => _committed'
          /\ (pc = "commit" /\ result'.status = "rejected") => _committed'
          /\ (_committed /\ lastCall' # lastCall)
               => (lastCall'.error # "none" /\ _writes' = _writes)]_vars

\* The commit RPC of a batch of one operation has failed, and a create call
\* made after the failure was rejected.
WitnessC20 ==
    /\ pc = "done" /\ result.status = "rejected"
    /\ result.error \in TransportErrors
    /\ Issued("commit") # {}
    /\ _committed /\ Len(_writes) = 1
    /\ lastCall.op = "create" /\ lastCall.error = "StateError"

-----------------------------------------------------------------------------
(* Failures of the RPCs.                                                   *)

\* The commit RPCs of the current commit() call that have failed.
FailedCommits == {k \in Issued("commit") : rpcs[k].error # "none"}

\* C21: every commit RPC is issued with allowRetries = false, a commit()
\* call issues at most one, and when it fails commit() rejects with the
\* error of that RPC, the failed commit RPC is the last RPC of the call, and
\* no list of write results is produced.
ThmC21 ==
    /\ \A k \in Issued("commit") : ~rpcs[k].allowRetries
    /\ Cardinality(Issued("commit")) <= 1
    /\ \A k \in FailedCommits :
          /\ k = Len(rpcs)
          /\ pc = "done"
          /\ result.status = "rejected"
          /\ result.error = rpcs[k].error
          /\ result.writeResults = << >>
          /\ resp = NoResponse

\* The commit RPC that followed a beginTransaction has failed with
\* DEADLINE_EXCEEDED for a batch of one operation.
WitnessC21 ==
    /\ Len(rpcs) = 2 /\ FailedCommits = {2}
    /\ rpcs[2].error = "DEADLINE_EXCEEDED"
    /\ result.status = "rejected" /\ result.error = "DEADLINE_EXCEEDED"
    /\ Len(_writes) = 1

\* The wire entries of operation i that carry a currentDocument.
Carriers(i) ==
    {j \in EntryPositions(i) : request.writes[j].currentDocument # NoPrecondition}

\* C22: in the commit request, an operation queued with a precondition has
\* that precondition as currentDocument on exactly one of its wire entries,
\* the write entry when it has one and the transform entry only when it has
\* no write entry; an operation queued without a precondition has a
\* currentDocument on none of its entries.
ThmC22 ==
    Issued("commit") # {}
    => \A i \in 1..Len(_writes) :
          IF _writes[i].precondition # NoPrecondition
          THEN /\ Cardinality(Carriers(i)) = 1
               /\ \A j \in Carriers(i) :
                     /\ request.writes[j].currentDocument = _writes[i].precondition
                     /\ request.writes[j].kind = "transform"
                          <=> IsNull(_writes[i].write)
          ELSE Carriers(i) = {}

\* update(ref, 'a', 1, 'b', <transform>) was sent as a write that carries
\* exists = true and a transform that carries nothing.
WitnessC22 ==
    /\ input.op = "update" /\ Issued("commit") # {}
    /\ Len(_writes) = 1 /\ SentBoth(1)
    /\ request.writes[1].kind = "update"
    /\ request.writes[1].currentDocument = [exists |-> "true", updateTime |-> 0]
    /\ request.writes[2].kind = "transform"
    /\ request.writes[2].currentDocument = NoPrecondition

-----------------------------------------------------------------------------
(* The write results of single-entry operations.                           *)

\* The position in request.writes of the entry of an operation sent as one
\* entry.
SinglePosition(i) == CHOOSE j \in EntryPositions(i) : TRUE

\* C23: when commit() resolves, the result of an operation that was sent as
\* one wire entry is the update time of that entry's write result when the
\* server reported one, and the commit time of the response when it did not.
ThmC23 ==
    (CommitReturned /\ result.status = "resolved")
    => \A i \in 1..Len(_writes) :
          ~SentBoth(i)
          => /\ Cardinality(EntryPositions(i)) = 1
             /\ resp.writeResults[SinglePosition(i)] # 0
                  => result.writeResults[i] = resp.writeResults[SinglePosition(i)]
             /\ resp.writeResults[SinglePosition(i)] = 0
                  => result.writeResults[i] = resp.commitTime

\* A resolved commit of two single-entry operations, of which the server
\* reported an update time for the first only.
WitnessC23 ==
    /\ CommitReturned /\ result.status = "resolved"
    /\ Len(_writes) = 2 /\ ~SentBoth(1) /\ ~SentBoth(2)
    /\ resp.writeResults[1] # 0 /\ resp.writeResults[2] = 0
    /\ result.writeResults[1] = resp.writeResults[1]
    /\ result.writeResults[2] = resp.commitTime
    /\ resp.commitTime # resp.writeResults[1]

-----------------------------------------------------------------------------
(* The validators of validate.ts. src/ holds two revisions of the file:    *)
(* dev/src/validate.ts, which tests values with the `is` package, and      *)
(* unnamed/part_000, which tests them with typeof and isNaN. Where the two *)
(* differ the operator of the second revision carries the suffix Rev2.     *)

\* The largest magnitude of the finite numbers passed to the validators.
MaxMagnitude == 2

\* A JavaScript number: NaN, an infinity, or the finite number twice / 2 (so
\* that halves are numbers of the model).
NaN == [kind |-> "nan", twice |-> 0]

NegInfinity == [kind |-> "-inf", twice |-> 0]

PosInfinity == [kind |-> "+inf", twice |-> 0]

Finite(twice) == [kind |-> "finite", twice |-> twice]

\* An option that is not given (undefined).
UndefinedNumber == [kind |-> "undefined", twice |-> 0]

Numbers ==
    {NaN, NegInfinity, PosInfinity}
    \cup {Finite(twice) : twice \in (-2 * MaxMagnitude)..(2 * MaxMagnitude)}

\* x < y on JavaScript numbers: false when either is NaN.
JsLess(x, y) ==
    /\ x.kind # "nan" /\ y.kind # "nan"
    /\ \/ x.kind = "-inf" /\ y.kind # "-inf"
       \/ y.kind = "+inf" /\ x.kind # "+inf"
       \/ x.kind = "finite" /\ y.kind = "finite" /\ x.twice < y.twice

\* value % 1 === 0: the remainder of NaN and of an infinity is NaN.
IsWhole(x) == x.kind = "finite" /\ x.twice % 2 = 0

\* The values passed to a validator: t tells undefined, null, a boolean, a
\* string, a number (n), a plain object, an array and a function apart.
Value(t) == [t |-> t, n |-> UndefinedNumber]

NumberValue(n) == [t |-> "number", n |-> n]

Values ==
    {Value(t) : t \in {"undefined", "null", "boolean", "string", "object",
                       "array", "function"}}
    \cup {NumberValue(n) : n \in Numbers}

\* The objects created with `new`, told apart by val.constructor.name: the
\* five Firestore types customObjectMessage knows, coming from another copy
\* of the package, and one class of the caller.
FirestoreTypes ==
    {"DocumentReference", "FieldPath", "FieldValue", "GeoPoint", "Timestamp"}

InstanceKinds == FirestoreTypes \cup {"Custom"}

\* typeof value
TypeOf(value) ==
    IF value.t \in {"null", "object", "array"} \cup InstanceKinds
    THEN "object" ELSE value.t

\* The options of a validator: given is FALSE for undefined options;
\* optional is "unset", "true" or "false"; minValue and maxValue are a
\* number or UndefinedNumber.
NoValidatorOptions ==
    [given |-> FALSE, optional |-> "unset", minValue |-> UndefinedNumber,
     maxValue |-> UndefinedNumber]

RangeBounds == {UndefinedNumber, Finite(-2), Finite(2)}

ValidatorOptions ==
    {NoValidatorOptions}
    \cup [given : {TRUE}, optional : {"unset", "true", "false"},
          minValue : RangeBounds, maxValue : RangeBounds]

\* isOptional(value, options)
isOptional(value, options) ==
    value.t = "undefined" /\ options.given /\ options.optional = "true"

\* is.object(value) of the `is` package: the value is an [object Object].
IsObject(value) == value.t \in {"object"} \cup InstanceKinds

\* is.nan(value) of the `is` package, and isNaN(value), for a number.
IsNan(value) == value.n.kind = "nan"

\* is.integer(value) of the `is` package for a number.
IsInteger(value) == value.n.kind # "nan" /\ IsWhole(value.n)

\* validateObject(arg, value, options) of dev/src/validate.ts: the message
\* of the error it throws, "none" when it returns.
validateObject(value, options) ==
    IF ~isOptional(value, options) /\ ~IsObject(value)
    THEN "is not a valid object" ELSE "none"

\* validateObject(arg, value, options) of unnamed/part_000.
validateObjectRev2(value, options) ==
    IF ~isOptional(value, options)
       /\ (TypeOf(value) # "object" /\ value.t = "null")
    THEN "is not a valid object" ELSE "none"

\* The range check shared by validateNumber and validateInteger.
OutOfRange(value, min, max) == JsLess(value.n, min) \/ JsLess(max, value.n)

\* validateNumber(arg, value, options), the same in both revisions.
validateNumber(value, options) ==
    LET min == IF options.given /\ options.minValue # UndefinedNumber
               THEN options.minValue ELSE NegInfinity
        max == IF options.given /\ options.maxValue # UndefinedNumber
               THEN options.maxValue ELSE NegInfinity
    IN  IF isOptional(value, options) THEN "none"
        ELSE IF TypeOf(value) # "number" \/ IsNan(value)
        THEN "is not a valid number"
        ELSE IF OutOfRange(value, min, max) THEN "must be within"
        ELSE "none"

\* validateInteger(arg, value, options) of dev/src/validate.ts.
validateInteger(value, options) ==
    LET min == IF options.given /\ options.minValue # UndefinedNumber
               THEN options.minValue ELSE NegInfinity
        max == IF options.given /\ options.maxValue # UndefinedNumber
               THEN options.maxValue ELSE PosInfinity
    IN  IF isOptional(value, options) THEN "none"
        ELSE IF TypeOf(value) # "number" \/ ~IsInteger(value)
        THEN "is not a valid integer"
        ELSE IF OutOfRange(value, min, max) THEN "must be within"
        ELSE "none"

\* validateInteger(arg, value, options) of unnamed/part_000.
validateIntegerRev2(value, options) ==
    LET min == IF options.given /\ options.minValue # UndefinedNumber
               THEN options.minValue ELSE NegInfinity
        max == IF options.given /\ options.maxValue # UndefinedNumber
               THEN options.maxValue ELSE PosInfinity
    IN  IF isOptional(value, options) THEN "none"
        ELSE IF TypeOf(value) # "number" \/ IsNan(value) \/ ~IsWhole(value.n)
        THEN "is not a valid integer"
        ELSE IF OutOfRange(value, min, max) THEN "must be within"
        ELSE "none"

\* The values passed to customObjectMessage: those of the validators and
\* the objects created with `new`.
FormatterValues == Values \cup {Value(t) : t \in InstanceKinds}

\* val.constructor.name of an object.
ConstructorName(value) ==
    IF value.t = "object" THEN "Object"
    ELSE IF value.t = "array" THEN "Array"
    ELSE value.t

\* The optional path argument of customObjectMessage: given or not.
PathOptions == [given : BOOLEAN]

\* fieldPathMessage
FieldPathMessage(path) == IF path.given THEN " (found in field)" ELSE ""

\* customObjectMessage(argumentName, val, path) of dev/src/validate.ts: the
\* part of the returned message that follows the error description.
customObjectMessage(val, path) ==
    IF IsObject(val) /\ ConstructorName(val) # "Object"
    THEN IF ConstructorName(val) \in FirestoreTypes
         THEN "doesn't match the expected instance" \o FieldPathMessage(path)
         ELSE "custom prototypes" \o FieldPathMessage(path)
    ELSE IF ~IsObject(val)
    THEN "Input is not a plain JavaScript object" \o FieldPathMessage(path)
    ELSE "Invalid use of type" \o FieldPathMessage(path)

\* customObjectMessage(argumentName, val, path) of unnamed/part_000.
customObjectMessageRev2(val, path) ==
    IF TypeOf(val) = "object" /\ val.t # "null"
    THEN IF ConstructorName(val) \in FirestoreTypes
         THEN "doesn't match the expected instance" \o FieldPathMessage(path)
         ELSE "custom prototypes" \o FieldPathMessage(path)
    ELSE "Invalid use of type" \o FieldPathMessage(path)

\* The validators examined, and a call of one of them: its value and its
\* options are the arguments of the prepared call.
Validators ==
    {"validateObject", "validateObjectRev2", "validateNumber",
     "validateInteger", "validateIntegerRev2"}

ValidatorCalls ==
    {[NoInput EXCEPT !.op = c[1], !.args = << c[2], c[3] >>] :
        c \in Validators \X Values \X ValidatorOptions}

\* The prepared validator call is made: it throws or returns.
Validate(op, message) ==
    /\ input.op = op
    /\ lastCall' = [op |-> op,
                    error |-> IF message = "none" THEN "none" ELSE "InvalidArgument",
                    message |-> message]
    /\ UNCHANGED << _writes, _committed, _preferTransactions,
                    _lastSuccessfulRequest, now, pc, request, rpcs, beginResp,
                    resp, result, input >>

\* The calls of customObjectMessage: its value and its path.
Formatters == {"customObjectMessage", "customObjectMessageRev2"}

FormatterCalls ==
    {[NoInput EXCEPT !.op = c[1], !.args = << c[2], c[3] >>] :
        c \in Formatters \X FormatterValues \X PathOptions}

\* The prepared customObjectMessage call is made: it returns its message.
Format(op, message) ==
    /\ input.op = op
    /\ lastCall' = [op |-> op, error |-> "none", message |-> message]
    /\ UNCHANGED << _writes, _committed, _preferTransactions,
                    _lastSuccessfulRequest, now, pc, request, rpcs, beginResp,
                    resp, result, input >>

(* getAll() and its read options (util.ts, revision unnamed/part_001).     *)

\* The largest number of entries of a fieldMask and of document references
\* passed to getAll().
MaxMaskLen == 2

MaxDocuments == 2

\* The fieldMask property of an options object: absent (undefined), an
\* array of entries, or present and not an array.
NoMask == [kind |-> "absent", paths |-> << >>]

OtherMask == [kind |-> "other", paths |-> << >>]

ArrayMask(paths) == [kind |-> "array", paths |-> paths]

\* The entries of a fieldMask: two field paths, an empty string and a value
\* that is no field path.
MaskEntries ==
    {PathArg(<< "a" >>), PathArg(<< "a", "b" >>), PathArg(<< >>),
     ValueArg("plain")}

SeqsUpTo(S, n) == UNION {[1..k -> S] : k \in 0..n}

Masks ==
    {NoMask, OtherMask} \cup {ArrayMask(paths) : paths \in SeqsUpTo(MaskEntries, MaxMaskLen)}

\* The values passed to getAll() and to validateReadOptions: t as for the
\* validators, the fieldMask of a plain object, the entries of an array.
ReadValue(t) == [t |-> t, mask |-> NoMask, items |-> << >>]

OptionsObject(mask) == [t |-> "object", mask |-> mask, items |-> << >>]

ArrayOf(items) == [t |-> "array", mask |-> NoMask, items |-> items]

DocRef == ReadValue("DocumentReference")

ReadOptionsValues ==
    {ReadValue(t) : t \in {"undefined", "null", "boolean", "number",
                           "string", "array"}}
    \cup {OptionsObject(mask) : mask \in Masks}

\* The outcome of a call: returned, or the error thrown.
Returned == [error |-> "none", message |-> "none"]

Thrown(error, message) == [error |-> error, message |-> message]

\* options.fieldMask: undefined on a value that has no such property.
FieldMaskOf(val) == IF val.t = "object" THEN val.mask ELSE NoMask

\* validateReadOptions(arg, val)
validateReadOptions(val) ==
    IF val.t = "undefined" THEN Returned
    ELSE IF TypeOf(val) # "object" /\ val.t = "null"
    THEN Thrown("InvalidArgument", "Input is not an object")
    ELSE IF val.t = "null"
    THEN Thrown("TypeError", "Cannot read property 'fieldMask' of null")
    ELSE IF FieldMaskOf(val).kind # "array"
    THEN Thrown("InvalidArgument", "\"fieldMask\" is not an array")
    ELSE IF \E i \in 1..Len(FieldMaskOf(val).paths) :
               ~validateFieldPath(FieldMaskOf(val).paths[i])
    THEN Thrown("InvalidArgument", "\"fieldMask\" is not valid")
    ELSE Returned

\* isPlainObject(input) of serializer.ts
isPlainObject(val) == val.t = "object"

\* validateDocumentReference(arg, value) of reference.ts
validateDocumentReference(val) == val.t = "DocumentReference"

\* The fieldMask parseGetAllArguments returns: null, or the field paths.
NullFieldMask == [isNull |-> TRUE, paths |-> << >>]

\* parseGetAllArguments(documentRefsOrReadOptions): the outcome, and the
\* documents and the fieldMask it returns.
parseGetAllArguments(args) ==
    LET usesDeprecatedArgumentStyle == Len(args) > 0 /\ args[1].t = "array"
        popsOptions == /\ ~usesDeprecatedArgumentStyle
                       /\ Len(args) > 0 /\ isPlainObject(args[Len(args)])
        documents == IF usesDeprecatedArgumentStyle THEN args[1].items
                     ELSE IF popsOptions THEN SubSeq(args, 1, Len(args) - 1)
                     ELSE args
        readOptions == IF usesDeprecatedArgumentStyle
                       THEN IF Len(args) > 1 THEN args[2]
                            ELSE ReadValue("undefined")
                       ELSE IF popsOptions THEN args[Len(args)]
                       ELSE ReadValue("undefined")
        fieldMask == IF readOptions.t = "object"
                        /\ readOptions.mask.kind = "array"
                     THEN [isNull |-> FALSE,
                           paths |-> [i \in 1..Len(readOptions.mask.paths) |->
                                         readOptions.mask.paths[i].path]]
                     ELSE NullFieldMask
    IN  IF \E i \in 1..Len(documents) : ~validateDocumentReference(documents[i])
        THEN [outcome |-> Thrown("InvalidArgument", "is not a valid DocumentReference"),
              documents |-> << >>, fieldMask |-> NullFieldMask]
        ELSE IF validateReadOptions(readOptions) # Returned
        THEN [outcome |-> validateReadOptions(readOptions),
              documents |-> << >>, fieldMask |-> NullFieldMask]
        ELSE [outcome |-> Returned, documents |-> documents,
              fieldMask |-> fieldMask]

\* The calls of validateReadOptions and of getAll(): document references,
\* one of them possibly a string, as a list or as one array, followed or not
\* by a value for the read options.
DocumentLists == SeqsUpTo({DocRef, ReadValue("string")}, MaxDocuments)

ReadCalls ==
    {[NoInput EXCEPT !.op = "validateReadOptions", !.args = << val >>] :
        val \in ReadOptionsValues}
    \cup {[NoInput EXCEPT !.op = "parseGetAllArguments", !.args = args] :
             args \in {documents \o tail :
                         documents \in DocumentLists,
                         tail \in {<< >>} \cup {<< OptionsObject(mask) >> : mask \in Masks}}
                      \cup {<< ArrayOf(documents) >> \o tail :
                         documents \in DocumentLists,
                         tail \in {<< >>} \cup {<< val >> : val \in ReadOptionsValues}}}

\* The prepared call is made: it throws or returns.
Read(op, outcome) ==
    /\ input.op = op
    /\ lastCall' = [op |-> op, error |-> outcome.error, message |-> outcome.message]
    /\ UNCHANGED << _writes, _committed, _preferTransactions,
                    _lastSuccessfulRequest, now, pc, request, rpcs, beginResp,
                    resp, result, input >>

InitValidate ==
    /\ NewBatch /\ ~_preferTransactions /\ _lastSuccessfulRequest = 0
    /\ input \in ValidatorCalls \cup FormatterCalls \cup ReadCalls

NextValidate ==
    \/ Validate("validateObject", validateObject(input.args[1], input.args[2]))
    \/ Validate("validateObjectRev2", validateObjectRev2(input.args[1], input.args[2]))
    \/ Validate("validateNumber", validateNumber(input.args[1], input.args[2]))
    \/ Validate("validateInteger", validateInteger(input.args[1], input.args[2]))
    \/ Validate("validateIntegerRev2", validateIntegerRev2(input.args[1], input.args[2]))
    \/ Format("customObjectMessage", customObjectMessage(input.args[1], input.args[2]))
    \/ Format("customObjectMessageRev2", customObjectMessageRev2(input.args[1], input.args[2]))
    \/ Read("validateReadOptions", validateReadOptions(input.args[1]))
    \/ Read("parseGetAllArguments", parseGetAllArguments(input.args).outcome)

SpecValidate == InitValidate /\ [][NextValidate]_vars

-----------------------------------------------------------------------------
(* Claims about the validators.                                            *)

\* The validator call that has been made, its value and its options.
Validated(op) == lastCall.op = op /\ input.op = op

ValidatedValue == input.args[1]

ValidatedOptions == input.args[2]

NumericValidators == {"validateNumber", "validateInteger", "validateIntegerRev2"}

IsNonFinite(value) ==
    value.t = "number" /\ value.n.kind \in {"nan", "-inf", "+inf"}

\* C24 as stated: validateNumber and validateInteger reject NaN and both
\* infinities whatever the range options are, and validateInteger rejects
\* every number that is not integral. validateNumber tests only for NaN
\* before its range check, and the range check lets -Infinity through when
\* minValue is omitted.
CexC24 ==
    /\ \A op \in NumericValidators :
          Validated(op) /\ IsNonFinite(ValidatedValue)
             => lastCall.error = "InvalidArgument"
    /\ \A op \in {"validateInteger", "validateIntegerRev2"} :
          Validated(op) /\ ValidatedValue.t = "number"
             /\ ~IsWhole(ValidatedValue.n)
             => lastCall.message = "is not a valid integer"

\* validateNumber has returned normally for -Infinity.
WitnessC24 ==
    /\ Validated("validateNumber")
    /\ ValidatedValue = NumberValue(NegInfinity)
    /\ lastCall.error = "none"

\* The values that are objects and not null.
IsNonNullObject(value) == value.t \in {"object", "array"}

\* C25 as stated: validateObject throws "is not a valid object" for null and
\* for every primitive, except for undefined when options.optional is true,
\* and returns for every object that is not null. The test of the second
\* revision, typeof value !== 'object' && value === null, is true of no
\* value, so that revision returns for every value.
CexC25 ==
    \A op \in {"validateObject", "validateObjectRev2"} :
       Validated(op) =>
          IF IsNonNullObject(ValidatedValue)
             \/ isOptional(ValidatedValue, ValidatedOptions)
          THEN lastCall.error = "none"
          ELSE ValidatedValue.t # "function"
                  => /\ lastCall.error = "InvalidArgument"
                     /\ lastCall.message = "is not a valid object"

\* validateObject of the second revision has returned normally for null.
WitnessC25 ==
    /\ Validated("validateObjectRev2")
    /\ ValidatedValue = Value("null")
    /\ lastCall.error = "none"

-----------------------------------------------------------------------------
(* Claims about commit() and the committed flag.                           *)

\* The wire entries of the queued operations from operation i on, as the
\* operations stand.
RECURSIVE WireEntries(_)
WireEntries(i) ==
    IF i > Len(_writes) THEN << >>
    ELSE (IF IsNull(_writes[i].write) THEN << >> ELSE << _writes[i].write >>)
         \o (IF IsNull(_writes[i].transform) THEN << >>
             ELSE << _writes[i].transform >>)
         \o WireEntries(i + 1)

\* A step that is a call of commit().
CommitCall ==
    /\ pc \in {"idle", "done"}
    /\ lastCall' = lastCall
    /\ (pc' # pc \/ result' # result \/ rpcs' # rpcs)

\* A step of a commit() call: the call itself, or a step of its handlers.
CommitStep == CommitCall \/ (pc \notin {"idle", "done"} /\ pc' # pc)

\* A step that issues a commit RPC.
CommitIssued == pc # "commit" /\ pc' = "commit"

\* The step leaves every queued operation in its place, with its method, its
\* precondition and the same write and transform objects.
ListKept ==
    /\ Len(_writes') = Len(_writes)
    /\ \A i \in 1..Len(_writes) :
          /\ _writes'[i].method = _writes[i].method
          /\ _writes'[i].precondition = _writes[i].precondition
          /\ _writes'[i].write.id = _writes[i].write.id
          /\ _writes'[i].write.kind = _writes[i].write.kind
          /\ _writes'[i].transform.id = _writes[i].transform.id
          /\ _writes'[i].transform.kind = _writes[i].transform.kind

\* C26: commit() on a committed batch is not refused: it issues an RPC, and
\* the commit RPC it issues carries the writes array of the commit RPC before
\* it, entry by entry; no step of a commit() call adds, removes or reorders a
\* queued operation, and once the batch is committed the queued operations
\* stay exactly as they are.
ThmC26 ==
    /\ [](_committed /\ request # NoRequest => request.writes = WireEntries(1))
    /\ [][/\ CommitStep => ListKept
          /\ _committed =>
                /\ _writes' = _writes
                /\ CommitCall
                      => /\ pc' \in {"beginTransaction", "commit"}
                         /\ result'.status = "pending"
                         /\ Len(rpcs') = 1
                /\ CommitIssued /\ request # NoRequest
                      => request'.writes = request.writes]_vars

\* A second commit RPC is in flight for a committed batch of two operations,
\* one of them a write and a transform, after the first commit RPC returned.
WitnessC26 ==
    /\ pc = "commit" /\ _committed
    /\ resp = NoResponse /\ _lastSuccessfulRequest # 0
    /\ Len(_writes) = 2 /\ Len(request.writes) = 3

\* A commit() call is running: one of its RPCs is in flight, or the handler
\* of its beginTransaction response is about to run.
Committing == pc \in {"beginTransaction", "beginTransactionDone", "commit"}

FailedBegin ==
    /\ pc = "done" /\ Len(rpcs) > 0
    /\ rpcs[Len(rpcs)].method = "beginTransaction"
    /\ rpcs[Len(rpcs)].error # "none"

\* A step in which the beginTransaction RPC fails.
BeginFails == pc = "beginTransaction" /\ pc' = "done"

\* A step that is a call of create().
CreateCall ==
    lastCall'.op = "create" /\ (lastCall' # lastCall \/ _writes' # _writes)

\* C28: when the beginTransaction RPC of the upgrade path fails, commit()
\* rejects with the error of that RPC and has issued no commit RPC; neither
\* the call nor the failure touches the committed flag or the queued
\* operations, so a batch that was not committed before the call is not
\* committed after it: create() is not refused and commit() issues an RPC
\* again.
ThmC28 ==
    /\ [](FailedBegin =>
             /\ result.status = "rejected"
             /\ Len(rpcs) = 1 /\ result.error = rpcs[1].error
             /\ Issued("commit") = {}
             /\ resp = NoResponse)
    /\ [][/\ CommitCall /\ pc' = "beginTransaction"
             => _committed' = _committed /\ _writes' = _writes
          /\ BeginFails
             => /\ _committed' = _committed /\ _writes' = _writes
                /\ rpcs'[Len(rpcs')].error \in TransportErrors
          /\ FailedBegin /\ ~_committed
             => /\ CreateCall => lastCall'.error = "none"
                /\ CommitCall => result'.status = "pending"]_vars

\* A commit() call of a batch never committed has ended with the failure of
\* its beginTransaction RPC: the batch holds an operation and is open.
WitnessC28 ==
    /\ FailedBegin /\ ~_committed
    /\ result.error = "DEADLINE_EXCEEDED"
    /\ Len(_writes) = 1

-----------------------------------------------------------------------------
(* Claims about the varargs form of update().                              *)

\* The prepared update() call is in the varargs form and has been made.
VarargsCalled ==
    /\ input.op = "update" /\ lastCall.op = "update"
    /\ Len(input.args) >= 1 /\ input.args[1].t = "string"

\* The number of field/value pairs among the arguments after documentRef.
PairCount == Len(input.args) \div 2

\* The final argument of the prepared call.
FinalArgument == input.args[Len(input.args)]

\* C29: in the varargs form of update() the arguments after documentRef are
\* read as field/value pairs, and the final argument is read as the
\* precondition exactly when the argument count, documentRef included, is
\* even. A call whose final argument is a field path without a value
\* throws; a call that succeeds has at least one pair, its update map holds
\* one entry per pair, in order, and the operation it queues carries the
\* precondition of the final argument when the count is even and the default
\* exists = true when it is odd.
ThmC29 ==
    VarargsCalled =>
       /\ (ArgumentCount % 2 = 0 /\ FinalArgument.t = "string")
            => /\ lastCall.error \in {"InvalidArgument", "StateError"}
               /\ lastCall.error = "InvalidArgument"
                     => lastCall.message \in {"precondition", "field path"}
       /\ lastCall.error = "none"
            => /\ PairCount >= 1
               /\ Parsed(input.args).ok
               /\ Len(Parsed(input.args).updateMap) = PairCount
               /\ \A k \in 1..PairCount :
                     /\ input.args[2 * k - 1].t = "string"
                     /\ Parsed(input.args).updateMap[k]
                           = [path |-> input.args[2 * k - 1].path,
                              kind |-> input.args[2 * k].kind]
               /\ Len(_writes) >= 1
               /\ _writes[Len(_writes)].precondition
                     = IF ArgumentCount % 2 = 0
                       THEN PreconditionToProto(FinalArgument.pre.exists,
                                                FinalArgument.pre.lastUpdateTime)
                       ELSE PreconditionToProto("true", 0)
               /\ ArgumentCount % 2 = 0
                     => FinalArgument.t \in {"object", "undefined"}

\* update(ref, 'a', v, {lastUpdateTime}) has queued its operation twice.
WitnessC29 ==
    /\ VarargsCalled
    /\ input.args = << PathArg(<< "a" >>), ValueArg("delete"), LastUpdateTime >>
    /\ lastCall.error = "none" /\ Len(_writes) = 2

-----------------------------------------------------------------------------
(* Claims about the range of validateNumber.                               *)

\* The value lies in the inclusive range of the options, an omitted bound
\* being no bound.
WithinRange(value, options) ==
    /\ (options.given /\ options.minValue # UndefinedNumber)
          => ~JsLess(value.n, options.minValue)
    /\ (options.given /\ options.maxValue # UndefinedNumber)
          => ~JsLess(options.maxValue, value.n)

\* C30 as stated: validateNumber returns for a finite number exactly when
\* the number lies in [minValue, maxValue], an omitted bound being no bound.
\* validateNumber takes -Infinity for an omitted maxValue, so that every
\* finite number exceeds it.
CexC30 ==
    (Validated("validateNumber") /\ ValidatedValue.t = "number"
        /\ ValidatedValue.n.kind = "finite")
    => (lastCall.error = "none"
           <=> WithinRange(ValidatedValue, ValidatedOptions))

\* validateNumber without options has thrown the range error for the number 1.
WitnessC30 ==
    /\ Validated("validateNumber")
    /\ ValidatedValue = NumberValue(Finite(2))
    /\ ValidatedOptions = NoValidatorOptions
    /\ lastCall.error = "InvalidArgument"
    /\ lastCall.message = "must be within"

-----------------------------------------------------------------------------
(* Claims about customObjectMessage.                                       *)

\* The customObjectMessage call that has been made and its value.
Formatted(op) == lastCall.op = op /\ input.op = op

\* The three messages of the claim, with and without the field path:
\* (a) an object of a Firestore type of another copy of the package,
\* (b) an object with a custom prototype.
MessageA ==
    {"doesn't match the expected instance" \o FieldPathMessage(path) :
        path \in PathOptions}

MessageB == {"custom prototypes" \o FieldPathMessage(path) : path \in PathOptions}

\* A primitive value: neither an object nor a function.
IsPrimitive(value) ==
    value.t \in {"undefined", "null", "boolean", "string", "number"}

\* C31 as stated: customObjectMessage returns message (a) for an object
\* whose constructor name is one of the five Firestore types, message (b)
\* for any other object whose constructor is not Object, and a third message
\* for a primitive; a plain object and a primitive never get (a) or (b).
\* The second revision tests only typeof val === 'object' && val !== null
\* and so returns message (b) for a plain object.
CexC31 ==
    \A op \in Formatters :
       Formatted(op) =>
          /\ ValidatedValue.t \in FirestoreTypes => lastCall.message \in MessageA
          /\ ValidatedValue.t = "Custom" => lastCall.message \in MessageB
          /\ (IsPrimitive(ValidatedValue) \/ ValidatedValue.t = "object")
                => lastCall.message \notin MessageA \cup MessageB

\* customObjectMessage of the second revision has returned message (b) for a
\* plain object.
WitnessC31 ==
    /\ Formatted("customObjectMessageRev2")
    /\ ValidatedValue = Value("object")
    /\ lastCall.message \in MessageB

-----------------------------------------------------------------------------
(* Claims about the read options of getAll().                              *)

\* The call of op that has been made.
ReadCalled(op) == lastCall.op = op /\ input.op = op

\* Every entry of the fieldMask is a valid field path.
ValidMask(mask) ==
    mask.kind = "array"
    /\ \A i \in 1..Len(mask.paths) : validateFieldPath(mask.paths[i])

\* The arguments are document references followed by an options object
\* without fieldMask.
ReferencesAndOptions(args) ==
    /\ Len(args) >= 2
    /\ \A i \in 1..(Len(args) - 1) : args[i] = DocRef
    /\ args[Len(args)] = OptionsObject(NoMask)

\* C32 as stated: validateReadOptions returns for undefined and for every
\* options object whose fieldMask is absent or an array of valid field
\* paths, and throws for null, for values that are no objects and for every
\* other fieldMask; parseGetAllArguments called with document references and
\* an options object without fieldMask returns, with fieldMask null. The
\* body of `if (options.fieldMask === undefined)` is empty, so an absent
\* fieldMask reaches the Array.isArray test and is rejected.
CexC32 ==
    /\ ReadCalled("validateReadOptions")
          => (lastCall.error = "none"
                 <=> \/ input.args[1].t = "undefined"
                     \/ /\ input.args[1].t = "object"
                        /\ \/ input.args[1].mask = NoMask
                           \/ ValidMask(input.args[1].mask))
    /\ (ReadCalled("parseGetAllArguments") /\ ReferencesAndOptions(input.args))
          => /\ lastCall.error = "none"
             /\ parseGetAllArguments(input.args).fieldMask = NullFieldMask

\* validateReadOptions has thrown for an options object without fieldMask.
WitnessC32 ==
    /\ ReadCalled("validateReadOptions")
    /\ input.args = << OptionsObject(NoMask) >>
    /\ lastCall.error = "InvalidArgument"
    /\ lastCall.message = "\"fieldMask\" is not an array"

=============================================================================
